---- MODULE Spec2Model ----
(***************************************************************************)
(* The file synthesis and merge engine: FileBase.synthesize (file.ts),     *)
(* writeFile / getFilePermissions / deepMerge (util.ts), ObjectFile and    *)
(* JsonFile (object-file.ts, json.ts).                                     *)
(***************************************************************************)
EXTENDS Integers, Sequences, FiniteSets, TLC

(***************************************************************************)
(* JavaScript values.  A plain object is an ordered list of entries (own   *)
(* enumerable properties in insertion order); an array carries its items   *)
(* and, in p, the non-index properties that have been assigned to it.      *)
(***************************************************************************)
Undefined == [t |-> "undefined"]

Null == [t |-> "null"]

Num(n) == [t |-> "number", v |-> n]

Str(s) == [t |-> "string", v |-> s]

Entry(k, v) == [k |-> k, v |-> v]

Obj(entries) == [t |-> "object", v |-> entries]

ArrP(items, props) == [t |-> "array", v |-> items, p |-> props]

Arr(items) == ArrP(items, <<>>)

\* a deferred value: a zero-argument function returning r
Thunk(r) == [t |-> "function", v |-> r]

EmptyObj == Obj(<<>>)

\* typeof x === 'object'
TypeofObject(x) == x.t \in {"object", "array", "null"}

\* util.ts isObject: a plain object, neither null nor an array
isObject(x) == x.t = "object"

\* the own non-index properties of an object or an array, in order
Props(x) == IF x.t = "object" THEN x.v ELSE IF x.t = "array" THEN x.p ELSE <<>>

WithProps(x, es) == IF x.t = "object" THEN Obj(es) ELSE ArrP(x.v, es)

IndexOfKey(es, k) ==
  IF \E i \in 1..Len(es) : es[i].k = k
  THEN CHOOSE i \in 1..Len(es) : es[i].k = k
  ELSE 0

HasProp(x, k) == IndexOfKey(Props(x), k) # 0

\* x[k] for a non-index key k (reading a property of a primitive gives undefined)
GetProp(x, k) ==
  LET i == IndexOfKey(Props(x), k)
  IN  IF i = 0 THEN Undefined ELSE Props(x)[i].v

\* x[k] = v: an existing key keeps its position, a new key is added last
SetProp(x, k, v) ==
  LET es == Props(x)
      i  == IndexOfKey(es, k)
  IN  IF i = 0 THEN WithProps(x, Append(es, Entry(k, v)))
      ELSE WithProps(x, [es EXCEPT ![i] = Entry(k, v)])

\* delete x[k]
DeleteProp(x, k) ==
  LET es == Props(x)
  IN  WithProps(x, SelectSeq(es, LAMBDA e : e.k # k))

\* Object.keys(x) of a plain object
ObjectKeys(x) == [i \in 1..Len(Props(x)) |-> Props(x)[i].k]

\* Object.keys(x).length of an object or an array
KeyCount(x) == IF x.t = "array" THEN Len(x.v) + Len(x.p) ELSE Len(Props(x))

(***************************************************************************)
(* util.ts deepMerge.  mergeOne mutates its target in place; where it      *)
(* assigns a source object or array into the target (target[key] = value)  *)
(* the two trees share that node from then on.  MergeOne returns the       *)
(* target and the source as they are afterwards, the paths of the target   *)
(* at which a node is shared with the source (al), and whether a TypeError *)
(* was thrown (err).                                                       *)
(***************************************************************************)
RECURSIVE SelfMergeKeys(_, _, _)
\* mergeOne(o, o): target and source are the same object
SelfMergeKeys(o, ks, destructive) ==
  IF ks = <<>> THEN o
  ELSE
    LET key   == Head(ks)
        value == GetProp(o, key)
        o2 ==
          IF isObject(value) THEN
            LET output == SelfMergeKeys(value, ObjectKeys(value), destructive)
            IN  IF KeyCount(output) = 0 /\ destructive
                THEN DeleteProp(o, key)
                ELSE SetProp(o, key, output)
          ELSE IF value = Undefined /\ destructive THEN DeleteProp(o, key)
          ELSE o
    IN  SelfMergeKeys(o2, Tail(ks), destructive)

SelfMerge(o, destructive) == SelfMergeKeys(o, ObjectKeys(o), destructive)

PrefixPaths(key, al) == { <<key>> \o a : a \in al }

RECURSIVE MergeKeys(_, _, _, _, _)
RECURSIVE mergeOne(_, _, _)
MergeKeys(target, source, ks, al, destructive) ==
  IF ks = <<>> THEN [tgt |-> target, src |-> source, al |-> al, err |-> FALSE]
  ELSE
    LET key   == Head(ks)
        value == GetProp(source, key)
        tk    == GetProp(target, key)
        step ==
          IF isObject(value) THEN
            IF ~TypeofObject(tk) THEN
              \* target[key] = value; mergeOne(target[key], value)
              LET output == SelfMerge(value, destructive)
              IN  IF KeyCount(output) = 0 /\ destructive
                  THEN [tgt |-> DeleteProp(target, key),
                        src |-> SetProp(source, key, output),
                        al |-> al, err |-> FALSE]
                  ELSE [tgt |-> SetProp(target, key, output),
                        src |-> SetProp(source, key, output),
                        al |-> al \cup {<<key>>}, err |-> FALSE]
            ELSE IF tk.t = "null" THEN
              \* mergeOne(null, value) / Object.keys(null)
              [tgt |-> target, src |-> source, al |-> al, err |-> TRUE]
            ELSE
              LET r == mergeOne(tk, value, destructive)
              IN  IF r.err
                  THEN [tgt |-> SetProp(target, key, r.tgt),
                        src |-> SetProp(source, key, r.src),
                        al |-> al \cup PrefixPaths(key, r.al), err |-> TRUE]
                  ELSE IF KeyCount(r.tgt) = 0 /\ destructive
                  THEN [tgt |-> DeleteProp(target, key),
                        src |-> SetProp(source, key, r.src),
                        al |-> al, err |-> FALSE]
                  ELSE [tgt |-> SetProp(target, key, r.tgt),
                        src |-> SetProp(source, key, r.src),
                        al |-> al \cup PrefixPaths(key, r.al), err |-> FALSE]
          ELSE IF value = Undefined /\ destructive THEN
            [tgt |-> DeleteProp(target, key), src |-> source, al |-> al, err |-> FALSE]
          ELSE IF value # Undefined THEN
            [tgt |-> SetProp(target, key, value), src |-> source,
             al |-> IF value.t = "array" THEN al \cup {<<key>>} ELSE al,
             err |-> FALSE]
          ELSE [tgt |-> target, src |-> source, al |-> al, err |-> FALSE]
    IN  IF step.err THEN step
        ELSE MergeKeys(step.tgt, step.src, Tail(ks), step.al, destructive)

mergeOne(target, source, destructive) ==
  MergeKeys(target, source, ObjectKeys(source), {}, destructive)

\* deepMerge([into, other], destructive) for two defined objects
deepMerge(into, other, destructive) == mergeOne(into, other, destructive)

(***************************************************************************)
(* object-file.ts: the override tree.  A path is a sequence of characters. *)
(***************************************************************************)
RECURSIVE SplitFrom(_, _, _)
\* ret is built in reverse: ret[1] is the segment being read
SplitFrom(x, i, ret) ==
  IF i > Len(x) THEN ret
  ELSE IF x[i] = "\\" /\ i + 1 <= Len(x)
       THEN SplitFrom(x, i + 2, [ret EXCEPT ![1] = @ \o x[i + 1]])
  ELSE IF x[i] = "."
       THEN SplitFrom(x, i + 1, <<"">> \o ret)
  ELSE SplitFrom(x, i + 1, [ret EXCEPT ![1] = @ \o x[i]])

Reverse(s) == [i \in 1..Len(s) |-> s[Len(s) + 1 - i]]

splitOnPeriods(x) == Reverse(SplitFrom(x, 1, <<"">>))

\* arrays are descended into as maps are
DescendInto_Arrays(curr, key) ==
  LET c == GetProp(curr, key)
  IN  IF c.t \in {"object", "array"} THEN c ELSE EmptyObj

\* the object the loop descends into: curr[key], or a new {} put in its place
DescendInto(curr, key) ==
  LET c == GetProp(curr, key)
  IN  IF c.t = "object" THEN c ELSE EmptyObj

RECURSIVE SetOverride(_, _, _)
SetOverride(curr, parts, value) ==
  IF Len(parts) > 1
  THEN SetProp(curr, Head(parts),
               SetOverride(DescendInto(curr, Head(parts)), Tail(parts), value))
  ELSE SetProp(curr, Head(parts), value)

\* the override tree after addOverride(path, value)
addOverride(overrides, path, value) ==
  SetOverride(overrides, splitOnPeriods(path), value)

\* the override tree after addDeletionOverride(path)
addDeletionOverride(overrides, path) == addOverride(overrides, path, Undefined)

AppendMarker(values) == Obj(<<Entry("__$APPEND", Arr(values))>>)

RECURSIVE PushOverride(_, _, _)
PushOverride(curr, parts, values) ==
  IF Len(parts) > 1
  THEN SetProp(curr, Head(parts),
               PushOverride(DescendInto(curr, Head(parts)), Tail(parts), values))
  ELSE LET c == GetProp(curr, Head(parts))
       IN  IF c.t = "array"
           THEN SetProp(curr, Head(parts), ArrP(c.v \o values, c.p))
           ELSE SetProp(curr, Head(parts), AppendMarker(values))

\* the override tree after addToArray(path, ...values)
addToArray(overrides, path, values) ==
  PushOverride(overrides, splitOnPeriods(path), values)

(***************************************************************************)
(* The resolver (_resolve.ts): deferred values are invoked and their       *)
(* result resolved; maps and sequences are rebuilt; with omitEmpty, keys   *)
(* whose resolved value is an empty map, an empty sequence or undefined    *)
(* are dropped.                                                            *)
(***************************************************************************)
IsEmptyValue(x) ==
  \/ x = Undefined
  \/ x.t = "object" /\ Len(x.v) = 0
  \/ x.t = "array"  /\ Len(x.v) = 0

RECURSIVE resolve(_, _)
RECURSIVE ResolveEntries(_, _)
RECURSIVE ResolveItems(_, _)
ResolveEntries(es, omitEmpty) ==
  IF es = <<>> THEN <<>>
  ELSE LET r == resolve(Head(es).v, omitEmpty)
       IN  IF omitEmpty /\ IsEmptyValue(r)
           THEN ResolveEntries(Tail(es), omitEmpty)
           ELSE <<Entry(Head(es).k, r)>> \o ResolveEntries(Tail(es), omitEmpty)

ResolveItems(items, omitEmpty) ==
  IF items = <<>> THEN <<>>
  ELSE LET rest == ResolveItems(Tail(items), omitEmpty)
           r    == resolve(Head(items), omitEmpty)
       IN  IF omitEmpty /\ rest = <<>> /\ r = Undefined THEN <<>>
           ELSE <<r>> \o rest

resolve(value, omitEmpty) ==
  IF value.t = "function" THEN resolve(value.v, omitEmpty)
  ELSE IF value.t = "object" THEN Obj(ResolveEntries(value.v, omitEmpty))
  ELSE IF value.t = "array" THEN Arr(ResolveItems(value.v, omitEmpty))
  ELSE value

(***************************************************************************)
(* JSON.stringify(value, undefined, 2) and JSON.parse of its result.       *)
(***************************************************************************)
Quote(s) == "\"" \o s \o "\""

\* properties that JSON.stringify writes: those whose value is defined
Written(es) == SelectSeq(es, LAMBDA e : e.v.t \notin {"undefined", "function"})

RECURSIVE JoinLines(_, _)
JoinLines(strs, sep) ==
  IF Len(strs) = 0 THEN ""
  ELSE IF Len(strs) = 1 THEN strs[1]
  ELSE strs[1] \o sep \o JoinLines(Tail(strs), sep)

RECURSIVE Stringify(_, _)
Stringify(x, indent) ==
  LET inner == indent \o "  "
  IN  CASE x.t = "number" -> ToString(x.v)
        [] x.t = "string" -> Quote(x.v)
        [] x.t = "object" ->
             LET es == Written(x.v)
             IN  IF Len(es) = 0 THEN "{}"
                 ELSE "{\n"
                      \o JoinLines([i \in 1..Len(es) |->
                           inner \o Quote(es[i].k) \o ": " \o Stringify(es[i].v, inner)],
                           ",\n")
                      \o "\n" \o indent \o "}"
        [] x.t = "array" ->
             IF Len(x.v) = 0 THEN "[]"
             ELSE "[\n"
                  \o JoinLines([i \in 1..Len(x.v) |-> inner \o Stringify(x.v[i], inner)],
                               ",\n")
                  \o "\n" \o indent \o "]"
        [] OTHER -> "null"

\* JSON.stringify(value, undefined, 2): undefined for an undefined value
JSONstringify(x) ==
  IF x.t \in {"undefined", "function"} THEN Undefined ELSE Str(Stringify(x, ""))

RECURSIVE JSONroundtrip(_)
\* JSON.parse(JSON.stringify(x)): what the text of x denotes
JSONroundtrip(x) ==
  CASE x.t = "object" ->
         LET es == Written(x.v)
         IN  Obj([i \in 1..Len(es) |-> Entry(es[i].k, JSONroundtrip(es[i].v))])
    [] x.t = "array" -> Arr([i \in 1..Len(x.v) |-> JSONroundtrip(x.v[i])])
    [] x.t \in {"undefined", "function"} -> Null
    [] OTHER -> x

(***************************************************************************)
(* fast-json-patch applyOperation(document, operation, true, true): the    *)
(* operation is validated against the document and applied in place.  An   *)
(* operation is [op, path, value]; its path is the sequence of reference   *)
(* tokens of the JSON pointer.                                             *)
(***************************************************************************)
IsPrefix(r, q) == Len(r) <= Len(q) /\ SubSeq(q, 1, Len(r)) = r

RECURSIVE GetAt(_, _)
GetAt(x, path) ==
  IF path = <<>> THEN x ELSE GetAt(GetProp(x, Head(path)), Tail(path))

RECURSIVE SetAt(_, _, _)
SetAt(x, path, v) ==
  IF path = <<>> THEN v
  ELSE SetProp(x, Head(path), SetAt(GetProp(x, Head(path)), Tail(path), v))

\* !x
Falsy(x) == x.t \in {"undefined", "null"} \/ x = Num(0) \/ x = Str("")

NoError == "none"

RECURSIVE ApplyAt(_, _, _, _)
\* found: existingPathFragment has been determined (the validator has run)
ApplyAt(node, tokens, operation, found) ==
  LET key     == Head(tokens)
      last    == Len(tokens) = 1
      child   == IF node.t = "array" /\ key = "-" THEN Undefined ELSE GetProp(node, key)
      missing == child = Undefined
      fail(code) == [doc |-> node, err |-> code]
  IN  IF ~TypeofObject(node) \/ node.t = "null" THEN fail("TypeError")
      ELSE IF ~found /\ missing /\ operation.op = "add" /\ ~last
        THEN fail("OPERATION_PATH_CANNOT_ADD")
      ELSE IF ~found /\ missing /\ operation.op \in {"replace", "remove"}
        THEN fail("OPERATION_PATH_UNRESOLVABLE")
      ELSE IF node.t = "array" /\ key # "-"
        THEN fail("OPERATION_PATH_ILLEGAL_ARRAY_INDEX")
      ELSE IF last THEN
        CASE operation.op = "test" ->
               IF child = operation.value THEN [doc |-> node, err |-> NoError]
               ELSE fail("TEST_OPERATION_FAILED")
          [] operation.op = "remove" ->
               [doc |-> DeleteProp(node, key), err |-> NoError]
          [] OTHER ->
               IF node.t = "array"
               THEN [doc |-> ArrP(Append(node.v, operation.value), node.p), err |-> NoError]
               ELSE [doc |-> SetProp(node, key, operation.value), err |-> NoError]
      ELSE IF Falsy(child) \/ ~TypeofObject(child)
        THEN fail("OPERATION_PATH_UNRESOLVABLE")
      ELSE LET r == ApplyAt(child, Tail(tokens), operation, found \/ missing)
           IN  [doc |-> SetProp(node, key, r.doc), err |-> r.err]

\* the document after the operation, and the error thrown (NoError if none)
applyOperation(document, operation) ==
  ApplyAt(document, operation.path, operation, FALSE)

(***************************************************************************)
(* ObjectFile.synthesizeContent.  The merge leaves nodes of the override   *)
(* tree inside the resolved document, so a patch operation that changes    *)
(* such a node changes the override tree too.  st is the state of the      *)
(* patch loop: the document, the override tree, the shared paths and the   *)
(* error thrown so far.                                                    *)
(***************************************************************************)
ParentPath(path) == SubSeq(path, 1, Len(path) - 1)

SharedRoots(al, path) == { r \in al : IsPrefix(r, ParentPath(path)) }

PatchStep(st, operation) ==
  LET r      == applyOperation(st.doc, operation)
      roots  == SharedRoots(st.al, operation.path)
      root   == CHOOSE q \in roots : TRUE
  IN  IF r.err # NoError THEN [st EXCEPT !.err = r.err]
      ELSE IF operation.op = "test" THEN st
      ELSE IF roots # {}
        THEN [doc |-> r.doc, ov |-> SetAt(st.ov, root, GetAt(r.doc, root)),
              al |-> st.al, err |-> NoError]
        ELSE [doc |-> r.doc, ov |-> st.ov,
              al |-> { q \in st.al : ~IsPrefix(operation.path, q) },
              err |-> NoError]

RECURSIVE PatchLoop(_, _)
PatchLoop(st, ops) ==
  IF ops = <<>> \/ st.err # NoError THEN st
  ELSE PatchLoop(PatchStep(st, Head(ops)), Tail(ops))

\* resolver.resolve(obj, {omitEmpty}) ?? undefined
Resolved(o, omit) ==
  LET r == resolve(o, omit) IN IF r = Null THEN Undefined ELSE r

\* if (resolved) { deepMerge([resolved, this.rawOverrides], true) }, m being what
\* the merge would leave
MergeIfResolved(r, ov, m) ==
  IF Falsy(r) THEN [doc |-> r, ov |-> ov, al |-> {}, err |-> NoError]
  ELSE [doc |-> m.tgt, ov |-> m.src, al |-> m.al,
        err |-> IF m.err THEN "TypeError" ELSE NoError]

MergeResolved(r, ov) == MergeIfResolved(r, ov, deepMerge(r, ov, TRUE))

\* the state after deepMerge([resolved, rawOverrides], true), skipped if !resolved
Merged(o, ov, omit) == MergeResolved(Resolved(o, omit), ov)

\* return resolved ? JSON.stringify(resolved, undefined, 2) : undefined
ReturnOf(st) ==
  [ret |-> IF st.err # NoError \/ Falsy(st.doc) THEN Undefined
           ELSE JSONstringify(st.doc),
   doc |-> st.doc, ov |-> st.ov, err |-> st.err]

\* ObjectFile.synthesizeContent: the text returned (ret), the document it was
\* made from (doc), the override tree afterwards (ov) and the error thrown (err)
ObjectFileContent(o, ov, ops, omit) == ReturnOf(PatchLoop(Merged(o, ov, omit), ops))

\* JsonFile.stringifyJson
stringifyJson(value, newline) ==
  LET content == JSONstringify(value)
  IN  IF newline THEN Str(content.v \o "\n") ELSE content

\* const sanitized = JSON.parse(json); return this.stringifyJson(sanitized)
Sanitize(r, newline) ==
  IF r.err # NoError \/ r.ret = Undefined
  THEN [ret |-> Undefined, sanitized |-> Undefined, ov |-> r.ov, err |-> r.err]
  ELSE [ret |-> stringifyJson(JSONroundtrip(r.doc), newline),
        sanitized |-> JSONroundtrip(r.doc), ov |-> r.ov, err |-> NoError]

\* JsonFile.synthesizeContent: adds sanitized, the parsed text of the document
synthesizeContent(o, ov, ops, omit, newline) ==
  Sanitize(ObjectFileContent(o, ov, ops, omit), newline)

(***************************************************************************)
(* json-patch.ts: JsonPatch.  An operation is the RFC 6902 record that     *)
(* fast-json-patch applies; a JsonPatch wraps one, and a test operation    *)
(* carries its TestFailureBehavior.                                        *)
(***************************************************************************)
PatchOp(op, path, value) == [op |-> op, path |-> path, value |-> value]

SKIP_PATCH == "skip"

THROW == "throw"

LOG_ERROR == "log"

TestFailureBehavior == {SKIP_PATCH, THROW, LOG_ERROR}

\* new JsonPatch(operation): TEST_FAILURE_BEHAVIOR_SYMBOL is not a property of it
JsonPatch(operation) == [operation |-> operation, failureBehavior |-> "undefined"]

JsonPatch_add(path, value) == JsonPatch(PatchOp("add", path, value))

JsonPatch_remove(path) == JsonPatch(PatchOp("remove", path, Undefined))

JsonPatch_replace(path, value) == JsonPatch(PatchOp("replace", path, value))

\* JsonPatch.test(path, value, failureBehavior = TestFailureBehavior.SKIP_PATCH)
JsonPatch_test(path, value, failureBehavior) ==
  [operation |-> PatchOp("test", path, value),
   failureBehavior |-> IF failureBehavior = "undefined" THEN SKIP_PATCH
                       ELSE failureBehavior]

\* p._toJson()
toJson(p) == p.operation

RECURSIVE ApplyUnvalidated(_, _, _)
\* applyOperation as applyPatch(document, patch) calls it, validateOperation
\* not given: the node after the operation and the error thrown
ApplyUnvalidated(node, tokens, operation) ==
  LET key    == Head(tokens)
      append == node.t = "array" /\ key = "-"
      child  == IF append THEN Undefined ELSE GetProp(node, key)
      fail(code) == [doc |-> node, err |-> code]
  IN  IF ~TypeofObject(node) \/ node.t = "null" THEN fail("TypeError")
      ELSE IF Len(tokens) = 1 THEN
        CASE operation.op = "test" ->
               IF child = operation.value THEN [doc |-> node, err |-> NoError]
               ELSE fail("TEST_OPERATION_FAILED")
          [] operation.op = "remove" ->
               [doc |-> IF append THEN node ELSE DeleteProp(node, key), err |-> NoError]
          [] OTHER ->
               IF append
               THEN [doc |-> ArrP(Append(node.v, operation.value), node.p), err |-> NoError]
               ELSE [doc |-> SetProp(node, key, operation.value), err |-> NoError]
      ELSE LET r == ApplyUnvalidated(child, Tail(tokens), operation)
           IN  IF r.err # NoError THEN fail(r.err)
               ELSE [doc |-> SetProp(node, key, r.doc), err |-> NoError]

RECURSIVE applyPatch(_, _, _)
\* applyPatch(document, patch) from operation i on: it changes document in place
\* (mutateDocument defaults to true); index is that of the operation that threw
applyPatch(document, patch, i) ==
  IF i > Len(patch) THEN [doc |-> document, err |-> NoError, index |-> 0]
  ELSE LET r == ApplyUnvalidated(document, patch[i].path, patch[i])
       IN  IF r.err # NoError THEN [doc |-> document, err |-> r.err, index |-> i]
           ELSE applyPatch(r.doc, patch, i + 1)

\* the catch block: r is what applyPatch left
applyCaught(ops, r) ==
  LET op == ops[r.index]
      failed == [document |-> r.doc, returned |-> Undefined, thrown |-> r.err,
                 logged |-> <<>>]
  IN  IF r.err # "TEST_OPERATION_FAILED" THEN failed
      ELSE IF op.failureBehavior = SKIP_PATCH
        THEN [document |-> r.doc, returned |-> r.doc, thrown |-> NoError, logged |-> <<>>]
      ELSE IF op.failureBehavior = LOG_ERROR
        THEN [document |-> r.doc, returned |-> r.doc, thrown |-> NoError,
              logged |-> <<[index |-> r.index - 1, op |-> toJson(op)]>>]
      ELSE failed

applyResult(ops, r) ==
  IF r.err = NoError
  THEN [document |-> r.doc, returned |-> r.doc, thrown |-> NoError, logged |-> <<>>]
  ELSE applyCaught(ops, r)

\* JsonPatch.apply(document, ...ops): the caller's document afterwards, the value
\* returned, the error thrown and the lines written with console.error
apply(document, ops) ==
  applyResult(ops, applyPatch(document, [i \in 1..Len(ops) |-> toJson(ops[i])], 1))

(***************************************************************************)
(* util.ts getFilePermissions / writeFile and the file on disk.            *)
(* An optional boolean is "true", "false" or "undefined" (omitted).        *)
(***************************************************************************)
TriBool == {"true", "false", "undefined"}

\* x ?? d
Nullish(x, d) == IF x = "undefined" THEN d ELSE x

\* readonly defaults to true, as it does for FileBaseOptions
getFilePermissions_ReadonlyDefault(options) ==
  LET ro == Nullish(options.readonly, "true")
      ex == Nullish(options.executable, "false")
  IN  IF ro = "true" /\ ex = "true" THEN "500"
      ELSE IF ro = "true" THEN "400"
      ELSE IF ex = "true" THEN "755"
      ELSE "644"

getFilePermissions(options) ==
  LET ro == Nullish(options.readonly, "false")
      ex == Nullish(options.executable, "false")
  IN  IF ro = "true" /\ ex = "true" THEN "500"
      ELSE IF ro = "true" THEN "400"
      ELSE IF ex = "true" THEN "755"
      ELSE "644"

\* the target path on disk: its parent directory, the file, its bytes and mode
NoFile(dir) == [dir |-> dir, file |-> FALSE, data |-> "", mode |-> "000"]

FileOnDisk(data, mode) == [dir |-> TRUE, file |-> TRUE, data |-> data, mode |-> mode]

\* the owner may write a file of this mode
OwnerWritable(mode) == mode \in {"600", "644", "755"}

\* the mode of a file created by fs.writeFileSync (0o666 under umask 022)
CreateMode == "644"

\* tryReadFileSync(filePath): the content of the file, undefined if there is none
tryReadFileSync(d) == IF d.file THEN Str(d.data) ELSE Undefined

(***************************************************************************)
(* The model's bounds and input sets.                                      *)
(***************************************************************************)
\* calls made by the project definition on the file before synthesis
MaxCalls == 2

\* process runs (each run builds the definition anew and synthesizes once)
MaxRuns == 2

P_a  == <<"a">>
P_ab == <<"a", ".", "b">>
P_ac == <<"a", ".", "c">>
P_xy == <<"x", ".", "y">>

B_empty == EmptyObj
B_ab    == Obj(<<Entry("a", Obj(<<Entry("b", Num(3))>>))>>)
B_xy    == Obj(<<Entry("x", Obj(<<Entry("y", Arr(<<Str("m")>>))>>))>>)
B_arr   == Obj(<<Entry("a", Arr(<<Str("m")>>))>>)
B_null  == Obj(<<Entry("a", Null)>>)
B_undef == Thunk(Undefined)

\* options.obj and options.omitEmpty of the files considered
FileDefs ==
  { [obj |-> B_empty, omitEmpty |-> "undefined"],
    [obj |-> B_ab,    omitEmpty |-> "undefined"],
    [obj |-> B_xy,    omitEmpty |-> "false"],
    [obj |-> B_arr,   omitEmpty |-> "undefined"],
    [obj |-> B_null,  omitEmpty |-> "undefined"],
    [obj |-> B_undef, omitEmpty |-> "true"] }

OverrideCalls ==
  { [call |-> "addOverride", path |-> P_a,  value |-> Num(1)],
    [call |-> "addOverride", path |-> P_ac, value |-> Num(4)],
    [call |-> "addOverride", path |-> P_ac, value |-> EmptyObj],
    [call |-> "addOverride", path |-> P_xy, value |-> Arr(<<Str("n")>>)],
    [call |-> "addDeletionOverride", path |-> P_ab, value |-> Undefined],
    [call |-> "addToArray", path |-> P_xy, value |-> Arr(<<Str("n")>>)] }

\* file.patch(p._toJson()) for a JsonPatch p; from remembers how the operation was made
PatchCall(p) == [call |-> "patch", path |-> <<>>, value |-> toJson(p), from |-> p]

PatchCalls ==
  { PatchCall(JsonPatch_replace(<<"a">>, Num(2))),
    PatchCall(JsonPatch_add(<<"x", "y", "-">>, Str("p"))),
    PatchCall(JsonPatch_remove(<<"a", "b">>)),
    PatchCall(JsonPatch_test(<<"a">>, Num(1), "undefined")),
    PatchCall(JsonPatch_test(<<"a">>, Num(1), LOG_ERROR)),
    PatchCall(JsonPatch_test(<<"a">>, Num(1), THROW)) }

\* the caller changes the object it passed as options.obj: obj.x = {y: ["m"]}
MutateCalls ==
  { [call |-> "mutate", path |-> <<"x">>, value |-> GetProp(B_xy, "x")] }

Calls == OverrideCalls \cup PatchCalls \cup MutateCalls

Scripts == UNION { [1..n -> Calls] : n \in 0..MaxCalls }

\* what an abstract FileBase subclass may return from synthesizeContent
Contents == {Undefined, Str("v1"), Str("v2")}

DiskInits ==
  { NoFile(FALSE), NoFile(TRUE) }
  \cup { FileOnDisk(d, m) : d \in {"v1", "old"}, m \in {"400", "500", "644", "755"} }

(***************************************************************************)
(* State.  projenrc is the project definition, executed anew by every      *)
(* process run; the other variables are the fields of the file object of   *)
(* the running process, the locals of synthesize() and the disk.           *)
(***************************************************************************)
VARIABLES
  projenrc,        \* the definition: the file's options and the calls made on it
  run,             \* number of the process run
  ip,              \* index of the next call of the definition
  pc,              \* position of the process
  obj,             \* ObjectFile.obj
  omitEmpty,       \* ObjectFile.omitEmpty
  rawOverrides,    \* ObjectFile.rawOverrides
  patchOperations, \* ObjectFile.patchOperations
  readonly,        \* FileBase.readonly
  executable,      \* FileBase.executable
  changed,         \* FileBase._changed
  content,         \* synthesize(): content
  sanitized,       \* JsonFile.synthesizeContent: sanitized
  disk,            \* the file at filePath and its parent directory
  thrown,          \* the error that ended the run, NoError if none
  files,           \* the files registered in the project tree
  document,        \* JsonPatch.apply: the caller's document object
  returned,        \* the value the last call returned
  logged,          \* what was written with console.error
  deps,            \* Dependencies._deps
  tasks,           \* Tasks._tasks
  dependencies,    \* NodeProject.dependencies, devDependencies, peerDependencies
  branches,        \* Release.branches
  env,             \* process.env.PROJEN_DISABLE_POST
  invoked,         \* the hooks the synthesis has called so far, in order
  store            \* the objects and arrays a caller of deepMerge holds, by identity

\* the state outside the file engine
patchVars == <<document, logged>>

\* the state of a project and of its synthesis
synthVars == <<dependencies, branches, env, invoked>>

auxVars == <<patchVars, returned, deps, tasks, synthVars, store>>

vars == <<projenrc, run, ip, pc, obj, omitEmpty, rawOverrides, patchOperations,
          readonly, executable, changed, content, sanitized, disk, thrown, files,
          auxVars>>

fileFields == <<obj, omitEmpty, rawOverrides, patchOperations, readonly, executable>>

\* FileBase / ObjectFile constructors: the fields of a new file object
Constructed(def) ==
  /\ readonly' = Nullish(def.readonly, "true")
  /\ executable' = Nullish(def.executable, "false")
  /\ obj' = def.obj
  /\ omitEmpty' = Nullish(def.omitEmpty, "false")
  /\ rawOverrides' = EmptyObj
  /\ patchOperations' = <<>>
  /\ changed' = "undefined"

StartPc(def) == IF def.kind = "file" THEN "ready" ELSE "define"

\* the file engine before the first call of the definition
EngineInit(def, d) ==
  /\ projenrc = def
  /\ run = 1
  /\ ip = 1
  /\ pc = StartPc(def)
  /\ obj = def.obj
  /\ omitEmpty = Nullish(def.omitEmpty, "false")
  /\ rawOverrides = EmptyObj
  /\ patchOperations = <<>>
  /\ readonly = Nullish(def.readonly, "true")
  /\ executable = Nullish(def.executable, "false")
  /\ changed = "undefined"
  /\ content = Undefined
  /\ sanitized = Undefined
  /\ disk = d
  /\ thrown = NoError
  /\ files = <<>>

\* no document has been patched
PatchIdle ==
  /\ document = Undefined
  /\ returned = Undefined
  /\ logged = <<>>

\* new Dependencies(project), new Tasks(project)
RegistriesNew ==
  /\ deps = <<>>
  /\ tasks = <<>>

\* the project before its definition runs
ProjectNew(def) ==
  /\ dependencies = IF def.kind = "project" THEN def.deps
                    ELSE [dependencies |-> <<>>, devDependencies |-> <<>>,
                          peerDependencies |-> <<>>]
  /\ branches = IF def.kind = "project" THEN def.branches ELSE <<>>
  /\ env = IF def.kind = "project" THEN def.env ELSE "undefined"
  /\ invoked = <<>>

\* the objects the caller has built
HeapOf(def) == store = IF def.kind = "merge" THEN def.heap ELSE <<>>

InitWith(def, d) ==
  EngineInit(def, d) /\ PatchIdle /\ RegistriesNew /\ ProjectNew(def) /\ HeapOf(def)

(***************************************************************************)
(* FileBase.synthesize and writeFile, one step per filesystem call.        *)
(***************************************************************************)
\* the comparison with the previous content is dropped: every content is written
SynthesizeWith_AlwaysWrite(c) ==
  /\ content' = c
  /\ IF c = Undefined
     THEN pc' = "done" /\ UNCHANGED changed
     ELSE pc' = "writeFile" /\ UNCHANGED changed
  /\ UNCHANGED disk

\* an unchanged file still gets its permissions set
SynthesizeWith_Touch(c) ==
  /\ content' = c
  /\ IF c = Undefined
     THEN pc' = "done" /\ UNCHANGED <<changed, disk>>
     ELSE IF tryReadFileSync(disk) # Undefined /\ c = tryReadFileSync(disk)
     THEN /\ pc' = "done" /\ changed' = "false"
          /\ disk' = [disk EXCEPT !.mode =
                        getFilePermissions([readonly |-> readonly, executable |-> executable])]
     ELSE pc' = "writeFile" /\ UNCHANGED <<changed, disk>>

\* a skipped file is recorded as unchanged
SynthesizeWith_SkipFalse(c) ==
  /\ content' = c
  /\ IF c = Undefined
     THEN pc' = "done" /\ changed' = "false"
     ELSE IF tryReadFileSync(disk) # Undefined /\ c = tryReadFileSync(disk)
     THEN pc' = "done" /\ changed' = "false"
     ELSE pc' = "writeFile" /\ UNCHANGED changed
  /\ UNCHANGED disk

\* synthesize() from the return of synthesizeContent to the call of writeFile
SynthesizeWith(c) ==
  /\ content' = c
  /\ IF c = Undefined
     THEN pc' = "done" /\ UNCHANGED changed
     ELSE IF tryReadFileSync(disk) # Undefined /\ c = tryReadFileSync(disk)
     THEN pc' = "done" /\ changed' = "false"
     ELSE pc' = "writeFile" /\ UNCHANGED changed
  /\ UNCHANGED disk

\* synthesize() of a file whose synthesizeContent returns c
Synthesize ==
  /\ pc = "ready"
  /\ \E c \in Contents : SynthesizeWith(c)
  /\ UNCHANGED <<projenrc, run, ip, fileFields, sanitized, thrown, files>>
  /\ UNCHANGED auxVars

\* the final mode is set before the write instead of the relaxed one
WriteFileRelax_FinalMode ==
  /\ pc = "writeFile"
  /\ disk' = IF disk.file
             THEN [disk EXCEPT !.mode =
                     getFilePermissions([readonly |-> readonly, executable |-> executable])]
             ELSE disk
  /\ pc' = "mkdirp"
  /\ UNCHANGED <<projenrc, run, ip, fileFields, changed, content, sanitized, thrown, files>>
  /\ UNCHANGED auxVars

\* if (fs.existsSync(filePath)) fs.chmodSync(filePath, '600')
WriteFileRelax ==
  /\ pc = "writeFile"
  /\ disk' = IF disk.file THEN [disk EXCEPT !.mode = "600"] ELSE disk
  /\ pc' = "mkdirp"
  /\ UNCHANGED <<projenrc, run, ip, fileFields, changed, content, sanitized, thrown, files>>
  /\ UNCHANGED auxVars

\* fs.mkdirpSync(path.dirname(filePath))
WriteFileMkdirp ==
  /\ pc = "mkdirp"
  /\ disk' = [disk EXCEPT !.dir = TRUE]
  /\ pc' = "write"
  /\ UNCHANGED <<projenrc, run, ip, fileFields, changed, content, sanitized, thrown, files>>
  /\ UNCHANGED auxVars

\* fs.writeFileSync(filePath, data)
WriteFileWrite ==
  /\ pc = "write"
  /\ IF ~disk.dir THEN
       /\ thrown' = "ENOENT" /\ pc' = "threw" /\ UNCHANGED disk
     ELSE IF disk.file /\ ~OwnerWritable(disk.mode) THEN
       /\ thrown' = "EACCES" /\ pc' = "threw" /\ UNCHANGED disk
     ELSE
       /\ disk' = [dir |-> TRUE, file |-> TRUE, data |-> content.v,
                   mode |-> IF disk.file THEN disk.mode ELSE CreateMode]
       /\ pc' = "chmod"
       /\ UNCHANGED thrown
  /\ UNCHANGED <<projenrc, run, ip, fileFields, changed, content, sanitized, files>>
  /\ UNCHANGED auxVars

\* the final mode is that of the options the file was constructed with
WriteFileChmod_AsConstructed ==
  /\ pc = "chmod"
  /\ disk' = [disk EXCEPT !.mode =
                getFilePermissions([readonly   |-> Nullish(projenrc.readonly, "true"),
                                    executable |-> Nullish(projenrc.executable, "false")])]
  /\ pc' = "written"
  /\ UNCHANGED <<projenrc, run, ip, fileFields, changed, content, sanitized, thrown, files>>
  /\ UNCHANGED auxVars

\* fs.chmodSync(filePath, getFilePermissions(options))
WriteFileChmod ==
  /\ pc = "chmod"
  /\ disk' = [disk EXCEPT !.mode =
                getFilePermissions([readonly |-> readonly, executable |-> executable])]
  /\ pc' = "written"
  /\ UNCHANGED <<projenrc, run, ip, fileFields, changed, content, sanitized, thrown, files>>
  /\ UNCHANGED auxVars

\* this._changed = true
SynthesizeChanged ==
  /\ pc = "written"
  /\ changed' = "true"
  /\ pc' = "done"
  /\ UNCHANGED <<projenrc, run, ip, fileFields, content, sanitized, disk, thrown, files>>
  /\ UNCHANGED auxVars

\* file.readonly = value, between two calls of synthesize()
SetReadonly(value) ==
  /\ pc = "done" /\ projenrc.kind = "file"
  /\ readonly' = value
  /\ UNCHANGED <<projenrc, run, ip, pc, obj, omitEmpty, rawOverrides, patchOperations,
                 executable, changed, content, sanitized, disk, thrown, files>>
  /\ UNCHANGED auxVars

\* file.executable = value, between two calls of synthesize()
SetExecutable(value) ==
  /\ pc = "done" /\ projenrc.kind = "file"
  /\ executable' = value
  /\ UNCHANGED <<projenrc, run, ip, pc, obj, omitEmpty, rawOverrides, patchOperations,
                 readonly, changed, content, sanitized, disk, thrown, files>>
  /\ UNCHANGED auxVars

\* synthesize() is called again on the same file object
Resynthesize ==
  /\ pc = "done"
  /\ projenrc.kind = "file"
  /\ pc' = "ready"
  /\ UNCHANGED <<projenrc, run, ip, fileFields, changed, content, sanitized, disk, thrown, files>>
  /\ UNCHANGED auxVars

\* the process ends; a new process executes the same definition
Restart ==
  /\ pc \in {"done", "threw"}
  /\ run < MaxRuns
  /\ run' = run + 1
  /\ ip' = 1
  /\ pc' = StartPc(projenrc)
  /\ Constructed(projenrc)
  /\ content' = Undefined
  /\ sanitized' = Undefined
  /\ thrown' = NoError
  /\ UNCHANGED <<projenrc, disk, files>>
  /\ UNCHANGED auxVars

(***************************************************************************)
(* The definition calls on a JsonFile, and its synthesis.                  *)
(***************************************************************************)
Defining == pc = "define" /\ ip <= Len(projenrc.calls)

cur == projenrc.calls[ip]

Called ==
  /\ ip' = ip + 1
  /\ UNCHANGED <<projenrc, run, pc, omitEmpty, readonly, executable, changed,
                 content, sanitized, disk, thrown, files>>

AddOverride ==
  /\ Defining /\ cur.call = "addOverride"
  /\ rawOverrides' = addOverride(rawOverrides, cur.path, cur.value)
  /\ UNCHANGED <<obj, patchOperations>>
  /\ Called
  /\ UNCHANGED auxVars

AddDeletionOverride ==
  /\ Defining /\ cur.call = "addDeletionOverride"
  /\ rawOverrides' = addDeletionOverride(rawOverrides, cur.path)
  /\ UNCHANGED <<obj, patchOperations>>
  /\ Called
  /\ UNCHANGED auxVars

AddToArray ==
  /\ Defining /\ cur.call = "addToArray"
  /\ rawOverrides' = addToArray(rawOverrides, cur.path, cur.value.v)
  /\ UNCHANGED <<obj, patchOperations>>
  /\ Called
  /\ UNCHANGED auxVars

\* the operations are queued at the front
patch_Unshift(ops, operation) == <<operation>> \o ops

\* this.patchOperations.push(...ops)
patch(ops, operation) == Append(ops, operation)

Patch ==
  /\ Defining /\ cur.call = "patch"
  /\ patchOperations' = patch(patchOperations, cur.value)
  /\ UNCHANGED <<obj, rawOverrides>>
  /\ Called
  /\ UNCHANGED auxVars

\* the caller assigns a key of the object it passed as options.obj
MutateObj ==
  /\ Defining /\ cur.call = "mutate"
  /\ obj' = IF obj.t = "object" THEN SetProp(obj, cur.path[1], cur.value) ELSE obj
  /\ UNCHANGED <<rawOverrides, patchOperations>>
  /\ Called
  /\ UNCHANGED auxVars

\* JsonFileOptions.newline, default true
Newline(def) == Nullish(def.newline, "true") = "true"

\* synthesize() with r the outcome of synthesizeContent
JsonSynthesizeWith(r) ==
  /\ rawOverrides' = r.ov
  /\ sanitized' = r.sanitized
  /\ IF r.err # NoError
     THEN /\ thrown' = r.err
          /\ pc' = "threw"
          /\ UNCHANGED <<content, changed, disk>>
     ELSE /\ SynthesizeWith(r.ret)
          /\ UNCHANGED thrown

\* synthesize() of the JsonFile, up to the call of writeFile
JsonSynthesize ==
  /\ pc = "define" /\ ip > Len(projenrc.calls)
  /\ JsonSynthesizeWith(synthesizeContent(obj, rawOverrides, patchOperations,
                                          omitEmpty = "true", Newline(projenrc)))
  /\ UNCHANGED <<projenrc, run, ip, obj, omitEmpty, patchOperations, readonly,
                 executable, files>>
  /\ UNCHANGED auxVars

(***************************************************************************)
(* The FileBase constructor and the project tree.  A path is a sequence of *)
(* segments; outdir and absolutePath are absolute.                         *)
(***************************************************************************)
\* files constructed in one project tree
MaxFiles == 3

RootOutdir == <<"out">>

Projects == {"root", "sub"}

\* project.outdir: a subproject's outdir lies inside the root's
Outdir(project) == IF project = "root" THEN RootOutdir ELSE RootOutdir \o <<"sub">>

RelPath(segs) == [abs |-> FALSE, segs |-> segs]

AbsPath(segs) == [abs |-> TRUE, segs |-> segs]

FilePaths ==
  { RelPath(<<"f">>), RelPath(<<"g">>), RelPath(<<"sub", "f">>),
    RelPath(<<"..", "f">>), AbsPath(<<"out", "f">>) }

RECURSIVE NormalizeOnto(_, _)
\* path.normalize of an absolute path: ".." removes the segment before it
NormalizeOnto(done, segs) ==
  IF segs = <<>> THEN done
  ELSE IF Head(segs) = ".."
       THEN NormalizeOnto(IF done = <<>> THEN done ELSE SubSeq(done, 1, Len(done) - 1),
                          Tail(segs))
  ELSE NormalizeOnto(Append(done, Head(segs)), Tail(segs))

\* path.resolve(outdir, filePath)
PathResolve(outdir, filePath) ==
  IF filePath.abs THEN NormalizeOnto(<<>>, filePath.segs)
  ELSE NormalizeOnto(<<>>, outdir \o filePath.segs)

RECURSIVE PathRelative(_, _)
\* path.relative(from, to) of two absolute paths
PathRelative(from, to) ==
  IF from # <<>> /\ to # <<>> /\ Head(from) = Head(to)
  THEN PathRelative(Tail(from), Tail(to))
  ELSE [i \in 1..Len(from) |-> ".."] \o to

PathString(segs) == JoinLines(segs, "/")

\* project.root.tryFindFile(absolutePath): index of the first file there, else 0
tryFindFile(fs, absolutePath) ==
  IF \E i \in 1..Len(fs) : fs[i].absolutePath = absolutePath
  THEN CHOOSE i \in 1..Len(fs) :
         /\ fs[i].absolutePath = absolutePath
         /\ \A j \in 1..(i - 1) : fs[j].absolutePath # absolutePath
  ELSE 0

\* this.absolutePath
absolutePath(project, filePath) == PathResolve(Outdir(project), filePath)

\* the look-up is made in the file's own project instead of the root
Existing_SameProject(fs, project, filePath) ==
  \E i \in 1..Len(fs) :
    fs[i].project = project /\ fs[i].absolutePath = absolutePath(project, filePath)

\* the constructor's check: a file other than this one is registered at the path
Existing(fs, project, filePath) == tryFindFile(fs, absolutePath(project, filePath)) # 0

AlreadyAFile(abs) ==
  "there is already a file under " \o PathString(PathRelative(RootOutdir, abs))

treeUnchanged == <<projenrc, run, ip, pc, fileFields, changed, content, sanitized, disk>>

\* new FileBase(project, filePath) returns
FileBaseNew(project, filePath) ==
  /\ projenrc.kind = "tree"
  /\ Len(files) < MaxFiles
  /\ ~Existing(files, project, filePath)
  /\ files' = Append(files, [project |-> project, path |-> filePath,
                             absolutePath |-> absolutePath(project, filePath)])
  /\ thrown' = NoError
  /\ UNCHANGED treeUnchanged
  /\ UNCHANGED auxVars

\* new FileBase(project, filePath) throws
FileBaseThrows(project, filePath) ==
  /\ projenrc.kind = "tree"
  /\ Existing(files, project, filePath)
  /\ thrown' = AlreadyAFile(absolutePath(project, filePath))
  /\ UNCHANGED files
  /\ UNCHANGED treeUnchanged
  /\ UNCHANGED auxVars

(***************************************************************************)
(* A caller of JsonPatch.apply: one call on a document it holds.           *)
(***************************************************************************)
\* operations in one call of JsonPatch.apply
MaxOps == 3

D_a1 == Obj(<<Entry("a", Num(1))>>)

D_a2 == Obj(<<Entry("a", Num(2))>>)

Documents == {B_empty, D_a1, D_a2, B_ab}

JsonPatches ==
  { JsonPatch_add(<<"x">>, Num(1)),
    JsonPatch_replace(<<"a">>, Num(2)),
    JsonPatch_remove(<<"a">>),
    JsonPatch_test(<<"a">>, Num(1), "undefined"),
    JsonPatch_test(<<"a">>, Num(1), LOG_ERROR),
    JsonPatch_test(<<"a">>, Num(1), THROW) }

Batches == UNION { [1..n -> JsonPatches] : n \in 0..MaxOps }

\* the definition of a run that calls JsonPatch.apply(document, ...ops)
ApplyOptions(d, ops) ==
  [kind |-> "apply", readonly |-> "undefined", executable |-> "undefined",
   obj |-> EmptyObj, omitEmpty |-> "undefined", newline |-> "undefined",
   calls |-> <<>>, document |-> d, ops |-> ops]

engineState == <<obj, omitEmpty, rawOverrides, patchOperations, readonly, executable,
                 changed, content, sanitized, disk, files>>

\* JsonPatch.apply returned or threw r
Applied(r) ==
  /\ document' = r.document
  /\ returned' = r.returned
  /\ logged' = logged \o r.logged
  /\ thrown' = r.thrown
  /\ pc' = IF r.thrown = NoError THEN "returned" ELSE "threw"

JsonPatchApply ==
  /\ projenrc.kind = "apply" /\ pc = "define"
  /\ Applied(apply(document, projenrc.ops))
  /\ UNCHANGED <<projenrc, run, ip, engineState, deps, tasks, synthVars, store>>

(***************************************************************************)
(* deps/dependencies.ts: Dependencies.  A spec, a module name and a        *)
(* version are sequences of characters.                                    *)
(***************************************************************************)
RECURSIVE SplitAt(_, _, _)
\* chars.split(sep), part being the part that is read
SplitAt(chars, sep, part) ==
  IF chars = <<>> THEN <<part>>
  ELSE IF Head(chars) = sep THEN <<part>> \o SplitAt(Tail(chars), sep, <<>>)
  ELSE SplitAt(Tail(chars), sep, Append(part, Head(chars)))

RECURSIVE JoinWith(_, _)
\* parts.join(sep)
JoinWith(parts, sep) ==
  IF parts = <<>> THEN <<>>
  ELSE IF Len(parts) = 1 THEN parts[1]
  ELSE parts[1] \o <<sep>> \o JoinWith(Tail(parts), sep)

\* Dependencies.parseDependency(spec)
parseDependency(spec) ==
  LET scope   == spec # <<>> /\ Head(spec) = "@"
      parts   == SplitAt(IF scope THEN Tail(spec) ELSE spec, "@", <<>>)
      module  == parts[1]
      version == Tail(parts)
      name    == IF scope THEN <<"@">> \o module ELSE module
  IN  IF Len(version) = 0 THEN [name |-> name, version |-> Undefined]
      ELSE [name |-> name, version |-> Str(JoinWith(version, "@"))]

\* values of DependencyType
DependencyTypes == {"runtime", "peer"}

\* this._deps[i] is a dependency on name of the given type
IsDep(ds, i, name, type) == ds[i].name = name /\ ds[i].type = type

\* tryGetDependencyIndex(name, type): the index found (0 if none, indexes being
\* counted from 1) and the error thrown
tryGetDependencyIndex(ds, name, type) ==
  LET named == SelectSeq(ds, LAMBDA d : d.name = name)
      t     == IF type = "undefined" THEN named[1].type ELSE type
      found == { i \in 1..Len(ds) : IsDep(ds, i, name, t) }
  IN  IF Len(named) = 0 THEN [idx |-> 0, err |-> NoError]
      ELSE IF type = "undefined" /\ Len(named) > 1
        THEN [idx |-> 0, err |-> "DefinedForMultipleTypes"]
      ELSE IF found = {} THEN [idx |-> 0, err |-> NoError]
      ELSE [idx |-> CHOOSE i \in found : \A j \in found : i <= j, err |-> NoError]

\* the registry never looks for an entry: every dependency is pushed
addDependency_Push(ds, spec, type, metadata) ==
  LET c   == parseDependency(spec)
      dep == [name |-> c.name, version |-> c.version, type |-> type,
              metadata |-> IF metadata = Undefined THEN EmptyObj ELSE metadata]
  IN  [deps |-> Append(ds, dep), returned |-> dep, err |-> NoError]

\* addDependency(spec, type, metadata = {}): the registry afterwards, the
\* dependency returned and the error thrown
addDependency(ds, spec, type, metadata) ==
  LET c   == parseDependency(spec)
      dep == [name |-> c.name, version |-> c.version, type |-> type,
              metadata |-> IF metadata = Undefined THEN EmptyObj ELSE metadata]
      e   == tryGetDependencyIndex(ds, dep.name, type)
      failed(code) == [deps |-> ds, returned |-> Undefined, err |-> code]
  IN  IF e.err # NoError THEN failed(e.err)
      ELSE IF e.idx # 0
        THEN IF dep.version = ds[e.idx].version \/ ds[e.idx].version = Undefined
             THEN [deps |-> [ds EXCEPT ![e.idx] = dep], returned |-> dep, err |-> NoError]
             ELSE failed("AlreadySpecifiedWithDifferentVersion")
      ELSE [deps |-> Append(ds, dep), returned |-> dep, err |-> NoError]

\* removeDependency(name, type)
removeDependency(ds, name, type) ==
  LET e == tryGetDependencyIndex(ds, name, type)
  IN  IF e.err # NoError THEN [deps |-> ds, returned |-> Undefined, err |-> e.err]
      ELSE IF e.idx = 0 THEN [deps |-> ds, returned |-> Undefined, err |-> NoError]
      ELSE [deps |-> SubSeq(ds, 1, e.idx - 1) \o SubSeq(ds, e.idx + 1, Len(ds)),
            returned |-> Undefined, err |-> NoError]

\* calls on the Dependencies of one project
MaxDepCalls == 3

S_f == <<"f">>

S_f1 == <<"f", "@", "1">>

S_f2 == <<"f", "@", "2">>

S_g1 == <<"g", "@", "1">>

\* the scoped module @f
S_sf1 == <<"@", "f", "@", "1">>

Metadata == Obj(<<Entry("k", Num(1))>>)

DepCalls ==
  { [call |-> "addDependency", spec |-> sp, type |-> t, metadata |-> Undefined] :
      sp \in {S_f, S_f1, S_f2, S_g1}, t \in DependencyTypes }
  \cup { [call |-> "addDependency", spec |-> S_sf1, type |-> "runtime",
          metadata |-> Undefined],
         [call |-> "addDependency", spec |-> S_f1, type |-> "runtime",
          metadata |-> Metadata] }
  \cup { [call |-> "removeDependency", name |-> n, type |-> t] :
          n \in {<<"f">>, <<"g">>}, t \in {"undefined", "runtime"} }

DepScripts == UNION { [1..n -> DepCalls] : n \in 0..MaxDepCalls }

DepsOptions(cs) ==
  [kind |-> "deps", readonly |-> "undefined", executable |-> "undefined",
   obj |-> EmptyObj, omitEmpty |-> "undefined", newline |-> "undefined", calls |-> cs]

\* a call on the registry returned or threw r; the caller goes on after an error
DepCalled(r) ==
  /\ deps' = r.deps
  /\ returned' = r.returned
  /\ thrown' = r.err
  /\ ip' = ip + 1
  /\ UNCHANGED <<projenrc, run, pc, engineState, patchVars, tasks, synthVars, store>>

AddDependency ==
  /\ projenrc.kind = "deps" /\ Defining /\ cur.call = "addDependency"
  /\ DepCalled(addDependency(deps, cur.spec, cur.type, cur.metadata))

RemoveDependency ==
  /\ projenrc.kind = "deps" /\ Defining /\ cur.call = "removeDependency"
  /\ DepCalled(removeDependency(deps, cur.name, cur.type))

(***************************************************************************)
(* tasks.ts: Tasks.  this._tasks is an object used as a map from names to  *)
(* tasks: the sequence of its own entries in insertion order, over         *)
(* Object.prototype.  A Task has a name, a description and steps.          *)
(***************************************************************************)
\* members of Object.prototype, which every {} inherits
ObjectPrototype == {"constructor"}

Inherited(name) == [t |-> "function", v |-> name]

\* new Task(name, options)
Task(name, options) ==
  [t |-> "task", name |-> name,
   description |-> IF options = Undefined THEN "undefined" ELSE options.description,
   steps |-> <<>>]

\* the index of the own property name of this._tasks, 0 if there is none
OwnTask(ts, name) ==
  IF \E i \in 1..Len(ts) : ts[i].name = name
  THEN CHOOSE i \in 1..Len(ts) : ts[i].name = name
  ELSE 0

\* this._tasks[name]
TaskAt(ts, name) ==
  IF OwnTask(ts, name) # 0 THEN ts[OwnTask(ts, name)]
  ELSE IF name \in ObjectPrototype THEN Inherited(name)
  ELSE Undefined

\* addTask(name, options)
addTask(ts, name, options) ==
  IF TaskAt(ts, name) # Undefined
  THEN [tasks |-> ts, returned |-> Undefined,
        err |-> "A task with the name " \o name \o " already exists"]
  ELSE [tasks |-> Append(ts, Task(name, options)), returned |-> Task(name, options),
        err |-> NoError]

\* task.steps.find(step => step.spawn == name)
Spawns(task, name) == \E i \in 1..Len(task.steps) : task.steps[i].spawn = name

RECURSIVE JoinNames(_)
\* names.join(', ')
JoinNames(ts) ==
  IF ts = <<>> THEN ""
  ELSE IF Len(ts) = 1 THEN ts[1].name
  ELSE ts[1].name \o ", " \o JoinNames(Tail(ts))

\* removeTask(name)
removeTask(ts, name) ==
  LET dependentTasks == SelectSeq(ts, LAMBDA x : Spawns(x, name))
  IN  IF Len(dependentTasks) > 0
      THEN [tasks |-> ts, returned |-> Undefined,
            err |-> "Unable to remove task \"" \o name
                    \o "\" because the following tasks depend on it: "
                    \o JoinNames(dependentTasks)]
      ELSE IF TaskAt(ts, name) # Undefined
        THEN [tasks |-> SelectSeq(ts, LAMBDA x : x.name # name),
              returned |-> TaskAt(ts, name), err |-> NoError]
      ELSE [tasks |-> ts, returned |-> Undefined, err |-> NoError]

\* a step is added to the registered task parent: task.spawn(subtask) or task.exec(command)
addStep(ts, parent, step) ==
  IF OwnTask(ts, parent) = 0 THEN ts
  ELSE [ts EXCEPT ![OwnTask(ts, parent)].steps = Append(@, step)]

SpawnStep(name) == [spawn |-> name, exec |-> "undefined"]

ExecStep(command) == [spawn |-> "undefined", exec |-> command]

\* calls on the Tasks of one project
MaxTaskCalls == 3

TaskCalls ==
  { [call |-> "addTask", name |-> n, options |-> Undefined] :
      n \in {"build", "test", "constructor"} }
  \cup { [call |-> "addTask", name |-> "build", options |-> [description |-> "compiles"]] }
  \cup { [call |-> "removeTask", name |-> n] : n \in {"build", "test", "constructor"} }
  \cup { [call |-> "step", name |-> "build", step |-> SpawnStep("test")],
         [call |-> "step", name |-> "test", step |-> SpawnStep("build")],
         [call |-> "step", name |-> "build", step |-> SpawnStep("build")],
         [call |-> "step", name |-> "build", step |-> ExecStep("tsc")] }

TaskScripts == UNION { [1..n -> TaskCalls] : n \in 0..MaxTaskCalls }

TasksOptions(cs) ==
  [kind |-> "tasks", readonly |-> "undefined", executable |-> "undefined",
   obj |-> EmptyObj, omitEmpty |-> "undefined", newline |-> "undefined", calls |-> cs]

\* a call on the registry returned or threw r; the caller goes on after an error
TaskCalled(r) ==
  /\ tasks' = r.tasks
  /\ returned' = r.returned
  /\ thrown' = r.err
  /\ ip' = ip + 1
  /\ UNCHANGED <<projenrc, run, pc, engineState, patchVars, deps, synthVars, store>>

AddTask ==
  /\ projenrc.kind = "tasks" /\ Defining /\ cur.call = "addTask"
  /\ TaskCalled(addTask(tasks, cur.name, cur.options))

RemoveTask ==
  /\ projenrc.kind = "tasks" /\ Defining /\ cur.call = "removeTask"
  /\ TaskCalled(removeTask(tasks, cur.name))

\* the definition adds a step to a task it holds
AddStep ==
  /\ projenrc.kind = "tasks" /\ Defining /\ cur.call = "step"
  /\ TaskCalled([tasks |-> addStep(tasks, cur.name, cur.step), returned |-> Undefined,
                 err |-> NoError])

(***************************************************************************)
(* A project and its synthesis.  NodeProject and Release (node-project.ts) *)
(* and TestProject (test util) are projects and components with hooks;     *)
(* Project.synth visits them phase by phase.                               *)
(***************************************************************************)
\* util.ts isTruthy, of the values an environment variable takes here
isTruthy_Never(value) == FALSE

isTruthy(value) == ~(value = "undefined" \/ value \in {"null", "0", "false", ""})

\* a Record<string, string> is the sequence of its entries
VersionOf(current, name) ==
  IF \E i \in 1..Len(current) : current[i].name = name
  THEN current[CHOOSE i \in 1..Len(current) : current[i].name = name].version
  ELSE "undefined"

\* loadDependencies: readDeps(user, current), which assigns into user
readDeps(user, current) ==
  [i \in 1..Len(user) |->
     IF user[i].version # "*" \/ VersionOf(current, user[i].name) \in {"undefined", "", "*"}
     THEN user[i]
     ELSE [user[i] EXCEPT !.version = VersionOf(current, user[i].name)]]

\* NodeProject.loadDependencies(outdir); pkg is package.json, Undefined if there is none
loadDependencies(ds, pkg) ==
  IF pkg = Undefined THEN ds
  ELSE [devDependencies |-> readDeps(ds.devDependencies, pkg.devDependencies),
        dependencies |-> readDeps(ds.dependencies, pkg.dependencies),
        peerDependencies |-> readDeps(ds.peerDependencies, pkg.peerDependencies)]

\* Release constructor: the default branch
DefaultBranch(options) ==
  [name |-> options.branch, majorVersion |-> options.majorVersion,
   workflowName |-> IF options.releaseWorkflowName = "undefined" THEN "Release"
                    ELSE options.releaseWorkflowName]

\* Release.addBranch(branch, options)
addBranch(bs, branch, options) ==
  IF \E i \in 1..Len(bs) : bs[i].name = branch
  THEN [branches |-> bs, err |-> "The release branch " \o branch \o " is already defined"]
  ELSE IF bs[1].majorVersion = "undefined"
  THEN [branches |-> bs,
        err |-> "you must specify \"majorVersion\" for the default branch"]
  ELSE [branches |-> Append(bs, [name |-> branch, majorVersion |-> options.majorVersion,
                                 workflowName |-> options.workflowName]),
        err |-> NoError]

\* createWorkflow: branch.workflowName ?? `release-${branch.name}`
WorkflowName(branch) ==
  IF branch.workflowName = "undefined" THEN "release-" \o branch.name
  ELSE branch.workflowName

\* name.toLocaleLowerCase() of the workflow names in use
LowerCase(name) == IF name = "Release" THEN "release" ELSE name

\* new GithubWorkflow(github, name): the path of its YamlFile
WorkflowFile(name) == RelPath(<<".github", "workflows", LowerCase(name) \o ".yml">>)

FileAt(project, filePath) ==
  [project |-> project, path |-> filePath, absolutePath |-> absolutePath(project, filePath)]

RECURSIVE createWorkflows(_, _, _)
\* Release.preSynthesize: a workflow per branch; st is [files, err]
createWorkflows(st, bs, github) ==
  IF bs = <<>> \/ st.err # NoError THEN st
  ELSE IF ~github THEN [st EXCEPT !.err = "no github support"]
  ELSE IF Existing(st.files, "root", WorkflowFile(WorkflowName(Head(bs))))
  THEN [st EXCEPT !.err = AlreadyAFile(absolutePath("root",
                                         WorkflowFile(WorkflowName(Head(bs)))))]
  ELSE createWorkflows(
         [st EXCEPT !.files = Append(@, FileAt("root", WorkflowFile(WorkflowName(Head(bs)))))],
         Tail(bs), github)

\* calls of a project definition
MaxProjectCalls == 2

NoDependencies == [dependencies |-> <<>>, devDependencies |-> <<>>, peerDependencies |-> <<>>]

Dep(name, version) == [name |-> name, version |-> version]

UserDependencies ==
  { [dependencies |-> d, devDependencies |-> <<Dep("g", "*")>>, peerDependencies |-> <<>>] :
      d \in {<<>>, <<Dep("f", "*")>>, <<Dep("f", "^1")>>} }

\* package.json in outdir as an earlier synthesis wrote it
PackageJsons ==
  { Undefined,
    [dependencies |-> <<Dep("f", "^2")>>, devDependencies |-> <<Dep("g", "*")>>,
     peerDependencies |-> <<>>],
    [dependencies |-> <<>>, devDependencies |-> <<Dep("g", "^3")>>,
     peerDependencies |-> <<>>] }

NewFileCalls ==
  { [call |-> "file", path |-> q] :
      q \in {RelPath(<<"f">>), RelPath(<<".github", "workflows", "release.yml">>)} }

AddBranchCalls ==
  { [call |-> "addBranch", name |-> "v2",
     options |-> [majorVersion |-> "2", workflowName |-> "undefined"]],
    [call |-> "addBranch", name |-> "v3",
     options |-> [majorVersion |-> "3", workflowName |-> "Release"]] }

ReleaseOptions ==
  { [branch |-> "main", majorVersion |-> m, releaseWorkflowName |-> "undefined"] :
      m \in {"undefined", "1"} }

ScriptsOf(calls) == UNION { [1..n -> calls] : n \in 0..MaxProjectCalls }

Harnesses == {"synthSnapshot", "synthSnapshotWithPost"}

Environments == {"undefined", "true", "false"}

ProjectOptions(project, how, e, ds, pkg, bs, github, cs) ==
  [kind |-> "project", readonly |-> "undefined", executable |-> "undefined",
   obj |-> EmptyObj, omitEmpty |-> "undefined", newline |-> "undefined", calls |-> cs,
   project |-> project, how |-> how, env |-> e, deps |-> ds, pkg |-> pkg,
   branches |-> bs, github |-> github]

\* a TestProject with files; a NodeProject with or without a Release component
ProjectDefs ==
  { ProjectOptions("TestProject", how, e, NoDependencies, Undefined, <<>>, TRUE, cs) :
      how \in Harnesses, e \in Environments, cs \in ScriptsOf(NewFileCalls) }
  \cup { ProjectOptions("NodeProject", how, e, ds, pkg, <<>>, TRUE, cs) :
           how \in Harnesses, e \in Environments, ds \in UserDependencies,
           pkg \in PackageJsons, cs \in ScriptsOf(NewFileCalls) }
  \cup { ProjectOptions("NodeProject", how, e, ds, pkg, <<DefaultBranch(o)>>, github, cs) :
           how \in Harnesses, e \in Environments, ds \in UserDependencies,
           pkg \in PackageJsons, o \in ReleaseOptions, github \in BOOLEAN,
           cs \in ScriptsOf(NewFileCalls \cup AddBranchCalls) }

projectUnchanged ==
  <<projenrc, run, fileFields, changed, content, sanitized, disk, patchVars, returned,
    deps, tasks, store>>

Hook(hook, of) == [hook |-> hook, of |-> of]

\* this.components: the Release component, if any, and the files in construction order
Components(fs, bs) ==
  (IF bs = <<>> THEN <<>> ELSE <<"release">>)
  \o [i \in 1..Len(fs) |-> PathString(fs[i].absolutePath)]

\* the number of hooks of a kind called on the components so far
Visited(hook) == Len(SelectSeq(invoked, LAMBDA h : h.hook = hook /\ h.of # "project"))

\* an error thrown by the definition or by a hook ends the process
Outcome(err, next) ==
  /\ thrown' = err
  /\ pc' = IF err = NoError THEN next ELSE "exit"

\* the definition constructs a file in the root project
NewFile ==
  /\ projenrc.kind = "project" /\ Defining /\ cur.call = "file"
  /\ IF Existing(files, "root", cur.path)
     THEN /\ Outcome(AlreadyAFile(absolutePath("root", cur.path)), pc)
          /\ UNCHANGED files
     ELSE /\ Outcome(NoError, pc)
          /\ files' = Append(files, FileAt("root", cur.path))
  /\ ip' = ip + 1
  /\ UNCHANGED <<synthVars, projectUnchanged>>

AddBranch ==
  /\ projenrc.kind = "project" /\ Defining /\ cur.call = "addBranch"
  /\ branches' = addBranch(branches, cur.name, cur.options).branches
  /\ Outcome(addBranch(branches, cur.name, cur.options).err, pc)
  /\ ip' = ip + 1
  /\ UNCHANGED <<files, dependencies, env, invoked, projectUnchanged>>

\* synthSnapshot(project) / synthSnapshotWithPost(project) calls project.synth();
\* Project.synth starts with the project's own preSynthesize
ProjectPreSynthesize ==
  /\ projenrc.kind = "project" /\ pc = "define" /\ ip > Len(projenrc.calls)
  /\ env' = IF projenrc.how = "synthSnapshot" THEN "true" ELSE env
  /\ dependencies' = IF projenrc.project = "NodeProject"
                     THEN loadDependencies(dependencies, projenrc.pkg)
                     ELSE dependencies
  /\ invoked' = Append(invoked, Hook("preSynthesize", "project"))
  /\ Outcome(NoError, "presynth")
  /\ UNCHANGED <<ip, files, branches, projectUnchanged>>

\* for (const comp of this.components) comp.preSynthesize();  the list is read as it grows
ComponentPreSynthesize ==
  /\ pc = "presynth"
  /\ Visited("preSynthesize") < Len(Components(files, branches))
  /\ invoked' = Append(invoked,
       Hook("preSynthesize", Components(files, branches)[Visited("preSynthesize") + 1]))
  /\ IF Components(files, branches)[Visited("preSynthesize") + 1] = "release"
     THEN /\ files' = createWorkflows([files |-> files, err |-> NoError], branches,
                                      projenrc.github).files
          /\ Outcome(createWorkflows([files |-> files, err |-> NoError], branches,
                                     projenrc.github).err, pc)
     ELSE /\ Outcome(NoError, pc)
          /\ UNCHANGED files
  /\ UNCHANGED <<ip, dependencies, branches, env, projectUnchanged>>

\* every component has been visited: the generated files are cleaned up
BeginSynthesize ==
  /\ pc = "presynth"
  /\ Visited("preSynthesize") = Len(Components(files, branches))
  /\ Outcome(NoError, "synth")
  /\ UNCHANGED <<ip, files, synthVars, projectUnchanged>>

\* for (const comp of this.components) comp.synthesize();
ComponentSynthesize ==
  /\ pc = "synth"
  /\ Visited("synthesize") < Len(Components(files, branches))
  /\ invoked' = Append(invoked,
       Hook("synthesize", Components(files, branches)[Visited("synthesize") + 1]))
  /\ Outcome(NoError, pc)
  /\ UNCHANGED <<ip, files, dependencies, branches, env, projectUnchanged>>

\* if (!isTruthy(process.env.PROJEN_DISABLE_POST)) { ... }
EndSynthesize ==
  /\ pc = "synth"
  /\ Visited("synthesize") = Len(Components(files, branches))
  /\ Outcome(NoError, IF isTruthy(env) THEN "done" ELSE "postsynth")
  /\ UNCHANGED <<ip, files, synthVars, projectUnchanged>>

\* for (const comp of this.components) comp.postSynthesize();
ComponentPostSynthesize ==
  /\ pc = "postsynth"
  /\ Visited("postSynthesize") < Len(Components(files, branches))
  /\ invoked' = Append(invoked,
       Hook("postSynthesize", Components(files, branches)[Visited("postSynthesize") + 1]))
  /\ Outcome(NoError, pc)
  /\ UNCHANGED <<ip, files, dependencies, branches, env, projectUnchanged>>

\* this.postSynthesize(): TestProject writes .postsynth, NodeProject installs
ProjectPostSynthesize ==
  /\ pc = "postsynth"
  /\ Visited("postSynthesize") = Len(Components(files, branches))
  /\ invoked' = Append(invoked, Hook("postSynthesize", "project"))
  /\ Outcome(NoError, "done")
  /\ UNCHANGED <<ip, files, dependencies, branches, env, projectUnchanged>>

\* synth() has returned: the snapshot is taken and synthSnapshot restores the variable
SnapshotReturn ==
  /\ projenrc.kind = "project" /\ pc = "done"
  /\ env' = projenrc.env
  /\ Outcome(NoError, "exit")
  /\ UNCHANGED <<ip, files, dependencies, branches, invoked, projectUnchanged>>

(***************************************************************************)
(* A definition that builds options.obj in another key insertion order.    *)
(***************************************************************************)
RECURSIVE Reordered(_)
\* the object with the same keys and values, inserted in the opposite order
Reordered(x) ==
  IF x.t = "object"
  THEN Obj(Reverse([i \in 1..Len(x.v) |-> Entry(x.v[i].k, Reordered(x.v[i].v))]))
  ELSE x

B_ba == Obj(<<Entry("b", Num(1)), Entry("a", Num(2))>>)

B_dc == Obj(<<Entry("x", Obj(<<Entry("d", Num(1)), Entry("c", Num(2))>>))>>)

OrderCalls == { c \in OverrideCalls : c.call = "addOverride" /\ c.value.t = "number" }

OrderOptions ==
  { [kind |-> "json", readonly |-> ro, executable |-> "undefined", obj |-> o,
     omitEmpty |-> "undefined", newline |-> nl, calls |-> cs] :
    ro \in {"undefined", "false"}, o \in {B_ba, B_dc, B_ab}, nl \in {"undefined", "false"},
    cs \in UNION { [1..n -> OrderCalls] : n \in 0..MaxCalls } }

\* the process ends; a new process executes the definition with the keys of
\* options.obj inserted in the opposite order
RestartReordered ==
  /\ pc \in {"done", "threw"}
  /\ run < MaxRuns
  /\ run' = run + 1
  /\ ip' = 1
  /\ projenrc' = [projenrc EXCEPT !.obj = Reordered(@)]
  /\ pc' = StartPc(projenrc')
  /\ Constructed(projenrc')
  /\ content' = Undefined
  /\ sanitized' = Undefined
  /\ thrown' = NoError
  /\ UNCHANGED <<disk, files>>
  /\ UNCHANGED auxVars

(***************************************************************************)
(* util.ts decamelizeKeysRecursively.  The input is a graph of objects and *)
(* arrays: heap maps an object's identity to the object, and a value that  *)
(* refers to an object or an array is a Ref to its identity, so that an    *)
(* object can contain itself.                                              *)
(***************************************************************************)
Ref(id) == [t |-> "ref", id |-> id]

\* the object, array or primitive a value stands for
Deref(heap, x) == IF x.t = "ref" THEN heap[x.id] ELSE x

\* decamelize(key, '_') of the keys in use
Decamelize(key) == IF key = "fooBar" THEN "foo_bar" ELSE key

\* opt?.maxDepth ?? 10
DefaultMaxDepth == 10

MaxDepthOf(opt) == IF opt = Undefined THEN DefaultMaxDepth ELSE opt.maxDepth

TooDeep == "Decamelled too deeply - check that the input has no circular references"

Returns(v) == [err |-> NoError, v |-> v]

Throws(err) == [err |-> err, v |-> Undefined]

RECURSIVE decamelizeKeysRecursively_AtDepth(_, _, _, _)
RECURSIVE decamelizeKeysRecursively(_, _, _, _)
RECURSIVE DecamelizeItems(_, _, _, _, _, _)
RECURSIVE DecamelizeEntries(_, _, _, _, _, _)

\* input.map(...): r is the outcome for item i
DecamelizeNextItem(heap, items, i, path_, maxDepth, done, r) ==
  IF r.err # NoError THEN r
  ELSE DecamelizeItems(heap, items, i + 1, path_, maxDepth, Append(done, r.v))

DecamelizeItems(heap, items, i, path_, maxDepth, done) ==
  IF i > Len(items) THEN Returns(Arr(done))
  ELSE DecamelizeNextItem(heap, items, i, path_, maxDepth, done,
         decamelizeKeysRecursively(heap, items[i], Append(path_, ToString(i - 1)), maxDepth))

\* mappedObject[transformedKey] = r.v, r being the outcome for entry i
DecamelizeNextEntry(heap, es, i, path_, maxDepth, mappedObject, r) ==
  IF r.err # NoError THEN r
  ELSE DecamelizeEntries(heap, es, i + 1, path_, maxDepth,
         SetProp(mappedObject, Decamelize(es[i].k), r.v))

DecamelizeEntries(heap, es, i, path_, maxDepth, mappedObject) ==
  IF i > Len(es) THEN Returns(mappedObject)
  ELSE DecamelizeNextEntry(heap, es, i, path_, maxDepth, mappedObject,
         decamelizeKeysRecursively(heap, es[i].v, Append(path_, es[i].k), maxDepth))

\* the depth error is thrown for a path as long as maxDepth
decamelizeKeysRecursively_AtDepth(heap, input, path_, maxDepth) ==
  IF Len(path_) >= maxDepth THEN Throws(TooDeep)
  ELSE IF Deref(heap, input).t = "array"
  THEN DecamelizeItems(heap, Deref(heap, input).v, 1, path_, maxDepth, <<>>)
  ELSE IF Deref(heap, input).t = "object"
  THEN DecamelizeEntries(heap, Deref(heap, input).v, 1, path_, maxDepth, EmptyObj)
  ELSE Returns(input)

\* decamelizeKeysRecursively(input, {path: path_, maxDepth})
decamelizeKeysRecursively(heap, input, path_, maxDepth) ==
  IF Len(path_) > maxDepth THEN Throws(TooDeep)
  ELSE IF Deref(heap, input).t = "array"
  THEN DecamelizeItems(heap, Deref(heap, input).v, 1, path_, maxDepth, <<>>)
  ELSE IF Deref(heap, input).t = "object"
  THEN DecamelizeEntries(heap, Deref(heap, input).v, 1, path_, maxDepth, EmptyObj)
  ELSE Returns(input)

\* objects of the input graph
MaxNodes == 2

NodeIds == 1..MaxNodes

DecamelKeys == {"fooBar", "foo_bar"}

\* the values of one node: primitives, and at most one reference to a node
NodeValues == {Num(1)} \cup {Ref(n) : n \in NodeIds}

\* two different keys in insertion order
KeyPairs == { q \in DecamelKeys \X DecamelKeys : q[1] # q[2] }

DecamelNodes ==
  {EmptyObj, Arr(<<>>)}
  \cup { Obj(<<Entry(k, v)>>) : k \in DecamelKeys, v \in NodeValues }
  \cup { Arr(<<v>>) : v \in NodeValues }
  \cup { Obj(<<Entry(q[1], v1), Entry(q[2], v2)>>) :
           q \in KeyPairs, v1 \in NodeValues, v2 \in {Num(2), Null} }
  \cup { Obj(<<Entry(q[1], Num(2)), Entry(q[2], v2)>>) :
           q \in KeyPairs, v2 \in NodeValues \ {Num(1)} }

DecamelizeOptions ==
  {Undefined} \cup { [t |-> "object", maxDepth |-> n] : n \in 0..2 }

DecamelOptions(heap, opt) ==
  [kind |-> "decamelize", readonly |-> "undefined", executable |-> "undefined",
   obj |-> EmptyObj, omitEmpty |-> "undefined", newline |-> "undefined",
   calls |-> <<>>, heap |-> heap, opt |-> opt]

\* a call returned or threw r
Outcomes(r) ==
  /\ returned' = r.v
  /\ thrown' = r.err
  /\ pc' = IF r.err = NoError THEN "returned" ELSE "threw"

\* decamelizeKeysRecursively(input, opt) with input the first object of the graph
DecamelizeCall ==
  /\ projenrc.kind = "decamelize" /\ pc = "define"
  /\ Outcomes(decamelizeKeysRecursively(projenrc.heap, Ref(1), <<>>,
                                        MaxDepthOf(projenrc.opt)))
  /\ UNCHANGED <<projenrc, run, ip, engineState, patchVars, deps, tasks, synthVars, store>>

(***************************************************************************)
(* util.ts deepMerge on the caller's objects.  The objects and arrays live *)
(* in a heap and hold references to one another, so an object may be       *)
(* reachable from itself and from both arguments of the merge.             *)
(***************************************************************************)
\* typeof x === 'object' for a property value held in the heap
TypeofObjectAt(x) == x.t \in {"ref", "null"}

\* util.ts isObject for a property value held in the heap
isObjectAt(heap, x) == x.t = "ref" /\ heap[x.id].t = "object"

\* target[key] = value
Assign(heap, target, key, value) == [heap EXCEPT ![target] = SetProp(@, key, value)]

\* delete target[key]
Delete(heap, target, key) == [heap EXCEPT ![target] = DeleteProp(@, key)]

\* the frames of mergeOne the call stack holds
MaxStack == 16

RangeError == "RangeError: Maximum call stack size exceeded"

TypeError == "TypeError: Cannot convert undefined or null to object"

Done(heap) == [heap |-> heap, err |-> NoError]

Raised(heap, err) == [heap |-> heap, err |-> err]

\* if (typeof(output) === 'object' && Object.keys(output).length === 0 && destructive)
PruneEmpty(heap, target, key, output, destructive) ==
  IF ~TypeofObjectAt(output) THEN Done(heap)
  ELSE IF output.t = "null" THEN Raised(heap, TypeError)
  ELSE IF KeyCount(heap[output.id]) = 0 /\ destructive THEN Done(Delete(heap, target, key))
  ELSE Done(heap)

RECURSIVE mergeOneAt(_, _, _, _, _), MergeKeysAt(_, _, _, _, _, _)
\* the isObject(value) branch, after target[key] has been made an object
MergeObjectAt(heap, target, key, value, destructive, depth) ==
  LET tk == GetProp(heap[target], key)
  IN  IF tk.t = "null" THEN Raised(heap, TypeError)
      ELSE
        LET r == mergeOneAt(heap, tk.id, value.id, destructive, depth + 1)
        IN  IF r.err # NoError THEN r
            ELSE PruneEmpty(r.heap, target, key, GetProp(r.heap[target], key),
                            destructive)

\* one iteration of the loop over Object.keys(source)
MergeKeyAt(heap, target, key, value, destructive, depth) ==
  IF isObjectAt(heap, value) THEN
    IF ~TypeofObjectAt(GetProp(heap[target], key))
    THEN MergeObjectAt(Assign(heap, target, key, value), target, key, value,
                       destructive, depth)
    ELSE MergeObjectAt(heap, target, key, value, destructive, depth)
  ELSE IF value = Undefined /\ destructive THEN Done(Delete(heap, target, key))
  ELSE IF value # Undefined THEN Done(Assign(heap, target, key, value))
  ELSE Done(heap)

MergeRestAt(r, target, source, ks, destructive, depth) ==
  IF r.err # NoError THEN r
  ELSE MergeKeysAt(r.heap, target, source, Tail(ks), destructive, depth)

MergeKeysAt(heap, target, source, ks, destructive, depth) ==
  IF ks = <<>> THEN Done(heap)
  ELSE MergeRestAt(MergeKeyAt(heap, target, Head(ks), GetProp(heap[source], Head(ks)),
                              destructive, depth),
                   target, source, ks, destructive, depth)

\* mergeOne(target, source) in the frame number depth of the call stack
mergeOneAt(heap, target, source, destructive, depth) ==
  IF depth > MaxStack THEN Raised(heap, RangeError)
  ELSE MergeKeysAt(heap, target, source, ObjectKeys(heap[source]), destructive, depth)

RECURSIVE MergeEach(_, _, _, _)
MergeRestEach(r, into, others, destructive) ==
  IF r.err # NoError THEN r ELSE MergeEach(r.heap, into, Tail(others), destructive)

\* others.forEach(other => mergeOne(into, other))
MergeEach(heap, into, others, destructive) ==
  IF others = <<>> THEN Done(heap)
  ELSE MergeRestEach(mergeOneAt(heap, into.id, Head(others).id, destructive, 1),
                     into, others, destructive)

\* objects.filter(x => x != null)
Others(objects) == SelectSeq(objects, LAMBDA x : x.t \notin {"undefined", "null"})

\* deepMerge(objects, destructive): the heap afterwards, the error and the value returned
deepMergeAt(heap, objects, destructive) ==
  IF Others(objects) = <<>> THEN [heap |-> heap, err |-> NoError, v |-> EmptyObj]
  ELSE [heap |-> MergeEach(heap, Head(Others(objects)), Tail(Others(objects)),
                           destructive).heap,
        err  |-> MergeEach(heap, Head(Others(objects)), Tail(Others(objects)),
                           destructive).err,
        v    |-> IF MergeEach(heap, Head(Others(objects)), Tail(Others(objects)),
                              destructive).err = NoError
                 THEN Head(Others(objects)) ELSE Undefined]

\* the objects a caller of deepMerge holds: the leftmost object (1), the
\* rightmost object (2) and the objects and arrays they refer to
Leftmost == 1

Rightmost == 2

MergeIds == 1..(MaxNodes + 2)

InnerIds == MergeIds \ {Leftmost, Rightmost}

InnerNodes ==
  {EmptyObj, Arr(<<>>), Arr(<<Str("m")>>), Obj(<<Entry("b", Num(3))>>),
   Obj(<<Entry("c", Num(3))>>), Obj(<<Entry("c", Undefined)>>)}
  \cup { Obj(<<Entry("c", Ref(n))>>) : n \in MergeIds }

LeftValues == {Num(1), Null, Ref(Leftmost)} \cup {Ref(n) : n \in InnerIds}

LeftObjects ==
  {EmptyObj}
  \cup { Obj(<<Entry("a", v)>>) : v \in LeftValues }
  \cup { Obj(<<Entry("a", v), Entry("b", Num(2))>>) : v \in LeftValues }

RightValues == {Num(5), Undefined} \cup {Ref(n) : n \in InnerIds}

RightObjects == { Obj(<<Entry("a", v)>>) : v \in RightValues }

Heaps ==
  { h \in [MergeIds -> LeftObjects \cup RightObjects \cup InnerNodes] :
      /\ h[Leftmost] \in LeftObjects
      /\ h[Rightmost] \in RightObjects
      /\ \A n \in InnerIds : h[n] \in InnerNodes }

MergeArguments == {<<Ref(Leftmost), Ref(Rightmost)>>,
                   <<Undefined, Ref(Leftmost), Ref(Rightmost)>>}

MergeOptions(heap, objects, destructive) ==
  [kind |-> "merge", readonly |-> "undefined", executable |-> "undefined",
   obj |-> EmptyObj, omitEmpty |-> "undefined", newline |-> "undefined",
   calls |-> <<>>, heap |-> heap, objects |-> objects, destructive |-> destructive]

\* deepMerge(objects, destructive) called on the caller's objects
DeepMergeCall ==
  /\ projenrc.kind = "merge" /\ pc = "define"
  /\ Outcomes(deepMergeAt(store, projenrc.objects, projenrc.destructive))
  /\ store' = deepMergeAt(store, projenrc.objects, projenrc.destructive).heap
  /\ UNCHANGED <<projenrc, run, ip, engineState, patchVars, deps, tasks, synthVars>>

(***************************************************************************)
(* Definitions that build the override tree: addOverride with escaped and  *)
(* nested paths over earlier overrides of every kind, and addToArray.      *)
(***************************************************************************)
P_abc    == <<"a", ".", "b", ".", "c">>
P_a_dot  == <<"a", ".">>
P_a_b    == <<"a", "\\", ".", "b">>
P_a_bs_b == <<"a", "\\", "\\", ".", "b">>

OverridePaths == {P_a, P_ab, P_abc, P_a_dot, P_a_b, P_a_bs_b}

OverrideValues == {Num(1), Null, Arr(<<Str("m")>>), EmptyObj, Obj(<<Entry("b", Num(3))>>)}

OverrideTreeCalls ==
  { [call |-> "addOverride", path |-> p, value |-> v] : p \in OverridePaths, v \in OverrideValues }
  \cup { [call |-> "addToArray", path |-> p, value |-> Arr(<<Str(s)>>)] :
           p \in {P_xy, P_a}, s \in {"n1", "n2"} }

OverrideOptions ==
  { [kind |-> "json", readonly |-> "undefined", executable |-> "undefined", obj |-> o,
     omitEmpty |-> "undefined", newline |-> "undefined", calls |-> cs] :
    o \in {B_empty, B_xy}, cs \in UNION { [1..n -> OverrideTreeCalls] : n \in 0..MaxCalls } }

(***************************************************************************)
(* Synthesis of the files of a project tree: where each file is written.   *)
(***************************************************************************)
\* path.join(outdir, this.path): the segments of both, normalized
PathJoin(outdir, filePath) == NormalizeOnto(<<>>, outdir \o filePath.segs)

\* const filePath = path.join(outdir, this.path) of synthesize()
SynthesizePath(file) == PathJoin(Outdir(file.project), file.path)

WritePaths == FilePaths \cup {AbsPath(<<"f">>)}

\* every file of the tree is synthesized; returned holds the paths they were
\* written to, in the order of construction
TreeSynthesize ==
  /\ projenrc.kind = "tree" /\ pc = "define"
  /\ returned' = [i \in 1..Len(files) |-> SynthesizePath(files[i])]
  /\ pc' = "done"
  /\ UNCHANGED <<projenrc, run, ip, fileFields, changed, content, sanitized, disk,
                 thrown, files, patchVars, deps, tasks, synthVars, store>>

(***************************************************************************)
(* Specifications.                                                         *)
(***************************************************************************)
FileOptions ==
  [kind : {"file"}, readonly : TriBool, executable : TriBool, obj : {EmptyObj},
   omitEmpty : {"undefined"}, newline : {"undefined"}, calls : {<<>>}]

JsonOptions ==
  { [kind |-> "json", readonly |-> ro, executable |-> "undefined", obj |-> fd.obj,
     omitEmpty |-> fd.omitEmpty, newline |-> "undefined", calls |-> cs] :
    ro \in {"undefined", "false"}, fd \in FileDefs, cs \in Scripts }

\* a FileBase with any synthesizeContent
Init == \E def \in FileOptions, d \in DiskInits : InitWith(def, d)

Next ==
  \/ Synthesize
  \/ WriteFileRelax
  \/ WriteFileMkdirp
  \/ WriteFileWrite
  \/ WriteFileChmod
  \/ SynthesizeChanged
  \/ Resynthesize
  \/ Restart

Spec == Init /\ [][Next]_vars

\* a JsonFile with overrides and patches
InitObj ==
  \E def \in JsonOptions, d \in {NoFile(FALSE), FileOnDisk("old", "400")} : InitWith(def, d)

NextObj ==
  \/ AddOverride
  \/ AddDeletionOverride
  \/ AddToArray
  \/ Patch
  \/ MutateObj
  \/ JsonSynthesize
  \/ WriteFileRelax
  \/ WriteFileMkdirp
  \/ WriteFileWrite
  \/ WriteFileChmod
  \/ SynthesizeChanged
  \/ Restart

SpecObj == InitObj /\ [][NextObj]_vars

\* files constructed in the projects of one tree
TreeOptions ==
  [kind |-> "tree", readonly |-> "undefined", executable |-> "undefined", obj |-> EmptyObj,
   omitEmpty |-> "undefined", newline |-> "undefined", calls |-> <<>>]

InitTree == InitWith(TreeOptions, NoFile(FALSE))

NextTree ==
  \/ \E project \in Projects, filePath \in FilePaths : FileBaseNew(project, filePath)
  \/ \E project \in Projects, filePath \in FilePaths : FileBaseThrows(project, filePath)

SpecTree == InitTree /\ [][NextTree]_vars

InitPatch ==
  \E d \in Documents, ops \in Batches :
     /\ EngineInit(ApplyOptions(d, ops), NoFile(FALSE))
     /\ document = d
     /\ returned = Undefined
     /\ logged = <<>>
     /\ RegistriesNew
     /\ ProjectNew(ApplyOptions(d, ops))
     /\ HeapOf(ApplyOptions(d, ops))

NextPatch == JsonPatchApply

SpecPatch == InitPatch /\ [][NextPatch]_vars

InitDeps == \E cs \in DepScripts : InitWith(DepsOptions(cs), NoFile(FALSE))

NextDeps ==
  \/ AddDependency
  \/ RemoveDependency

SpecDeps == InitDeps /\ [][NextDeps]_vars

InitTasks == \E cs \in TaskScripts : InitWith(TasksOptions(cs), NoFile(FALSE))

NextTasks ==
  \/ AddTask
  \/ RemoveTask
  \/ AddStep

SpecTasks == InitTasks /\ [][NextTasks]_vars

InitSynth == \E def \in ProjectDefs : InitWith(def, NoFile(FALSE))

NextSynth ==
  \/ NewFile
  \/ AddBranch
  \/ ProjectPreSynthesize
  \/ ComponentPreSynthesize
  \/ BeginSynthesize
  \/ ComponentSynthesize
  \/ EndSynthesize
  \/ ComponentPostSynthesize
  \/ ProjectPostSynthesize
  \/ SnapshotReturn

SpecSynth == InitSynth /\ [][NextSynth]_vars

\* a JsonFile synthesized by two runs that build its object in different key orders
InitOrder == \E def \in OrderOptions : InitWith(def, NoFile(FALSE))

NextOrder ==
  \/ AddOverride
  \/ JsonSynthesize
  \/ WriteFileRelax
  \/ WriteFileMkdirp
  \/ WriteFileWrite
  \/ WriteFileChmod
  \/ SynthesizeChanged
  \/ RestartReordered

SpecOrder == InitOrder /\ [][NextOrder]_vars

\* one call of decamelizeKeysRecursively
InitDecamel ==
  \E heap \in [NodeIds -> DecamelNodes], opt \in DecamelizeOptions :
    InitWith(DecamelOptions(heap, opt), NoFile(FALSE))

NextDecamel == DecamelizeCall

SpecDecamel == InitDecamel /\ [][NextDecamel]_vars

\* one call of deepMerge
InitMerge ==
  \E heap \in Heaps, objects \in MergeArguments, destructive \in BOOLEAN :
    InitWith(MergeOptions(heap, objects, destructive), NoFile(FALSE))

NextMerge == DeepMergeCall

SpecMerge == InitMerge /\ [][NextMerge]_vars

\* a JsonFile whose definition builds an override tree, synthesized once
InitOverride == \E def \in OverrideOptions : InitWith(def, NoFile(FALSE))

NextOverride ==
  \/ AddOverride
  \/ AddToArray
  \/ JsonSynthesize
  \/ WriteFileRelax
  \/ WriteFileMkdirp
  \/ WriteFileWrite
  \/ WriteFileChmod
  \/ SynthesizeChanged

SpecOverride == InitOverride /\ [][NextOverride]_vars

\* files constructed in the projects of one tree, relative and absolute, and
\* the synthesis of the tree
NextWrite ==
  \/ \E project \in Projects, filePath \in WritePaths : FileBaseNew(project, filePath)
  \/ \E project \in Projects, filePath \in WritePaths : FileBaseThrows(project, filePath)
  \/ TreeSynthesize

SpecWrite == InitTree /\ [][NextWrite]_vars

\* a FileBase synthesized repeatedly, its readonly and executable assigned
\* between the calls
NextMode ==
  \/ Synthesize
  \/ WriteFileRelax
  \/ WriteFileMkdirp
  \/ WriteFileWrite
  \/ WriteFileChmod
  \/ SynthesizeChanged
  \/ Resynthesize
  \/ \E value \in {"true", "false"} : SetReadonly(value)
  \/ \E value \in {"true", "false"} : SetExecutable(value)

SpecMode == Init /\ [][NextMode]_vars

(***************************************************************************)
(* Properties.                                                             *)
(***************************************************************************)
\* the permission matrix of the specification
MatrixMode(ro, ex) ==
  CASE ro = "true" /\ ex = "true" -> "500"
    [] ro = "true" /\ ex # "true" -> "400"
    [] ro # "true" /\ ex = "true" -> "755"
    [] OTHER -> "644"

\* a step that ends a call of synthesize() which produced content
EndsSynthesis == pc # "done" /\ pc' = "done" /\ content' # Undefined

\* C1: idempotent re-synthesis.  In a process run that follows a run of the same
\* definition, with no external change of the output directory, no step changes
\* the file's bytes or its existence, and a synthesize() that produced content
\* ends with changed = false.
C1_Idempotent ==
  [][run >= 2 =>
       /\ disk'.data = disk.data
       /\ disk'.file = disk.file
       /\ (EndsSynthesis => changed' = "false")]_vars

C1_Witness ==
  /\ run = 2 /\ pc = "done" /\ changed = "false"
  /\ content # Undefined /\ disk.data = content.v
  /\ Len(patchOperations) > 0 /\ rawOverrides # EmptyObj

\* C2: a synthesize() whose content equals the content already at the target path
\* changes nothing on disk (bytes, mode, directories), performs no later
\* filesystem step and records changed = false.
C2_NoChangeNoTouch ==
  [][(pc = "ready" /\ pc' # "ready" /\ content' # Undefined
        /\ disk.file /\ disk.data = content'.v)
       => (disk' = disk /\ changed' = "false" /\ pc' = "done")]_vars

C2_Witness ==
  /\ pc = "done" /\ changed = "false" /\ content # Undefined
  /\ disk.file /\ disk.data = content.v
  /\ disk.mode # MatrixMode(readonly, executable)

\* C3: a synthesize() whose synthesizeContent returns undefined touches neither
\* the disk nor changed; changed is assigned only by a synthesize() that produced
\* content, and that call leaves it true exactly when it went through writeFile
\* (after which the file holds the content), false when it left the disk alone.
C3_SkipAndChanged ==
  [][/\ (pc = "ready" /\ pc' # "ready" /\ content' = Undefined)
          => (disk' = disk /\ changed' = changed /\ pc' = "done")
     /\ (changed' # changed /\ pc # "done") => (EndsSynthesis /\ changed' # "undefined")
     /\ EndsSynthesis =>
          /\ changed' = "true" <=> pc = "written"
          /\ changed' = "false" <=> pc = "ready"
          /\ disk' = disk
          /\ pc = "written" => (disk.file /\ disk.data = content.v)
     /\ disk' # disk => pc \in {"writeFile", "mkdirp", "write", "chmod"}]_vars

C3_Witness ==
  /\ pc = "done" /\ run = 1 /\ content = Undefined /\ changed = "undefined"
  /\ ~disk.file /\ ~disk.dir

\* C4: getFilePermissions maps (readonly, executable), an omitted option counting
\* as false, to 500 / 400 / 755 / 644, and when writeFile returns the file has
\* exactly the mode of the file's readonly and executable.
C4_PermissionMatrix ==
  /\ \A ro \in TriBool, ex \in TriBool :
       getFilePermissions([readonly |-> ro, executable |-> ex]) = MatrixMode(ro, ex)
  /\ pc = "written" => (disk.file /\ disk.mode = MatrixMode(readonly, executable))

C4_Witness ==
  /\ pc = "written" /\ readonly = "true" /\ executable = "true" /\ disk.mode = "500"

\* C5: on the write path the bytes are written only once an existing file has been
\* relaxed to 600 and the parent directory exists; a directory is created only
\* after the relaxation and before the write; the final mode is set only after
\* the content is in the file; changed becomes true only after all of these.
C5_WriteOrder ==
  [][/\ (disk'.data # disk.data \/ disk'.file # disk.file)
          => (disk.dir /\ (disk.file => disk.mode = "600") /\ disk'.data = content.v)
     /\ disk'.dir # disk.dir
          => ((disk.file => disk.mode = "600") /\ disk'.data = disk.data
              /\ disk'.file = disk.file)
     /\ (disk'.mode # disk.mode /\ disk.file /\ disk'.mode # "600")
          => (disk.data = content.v /\ disk'.data = disk.data
              /\ disk'.mode = MatrixMode(readonly, executable))
     /\ (disk'.mode = "600" /\ disk.mode # "600" /\ disk.file)
          => (disk'.data = disk.data /\ pc = "writeFile")
     /\ (pc = "written" /\ pc' = "done")
          => (changed' = "true" /\ disk' = disk /\ disk.file /\ disk.data = content.v
              /\ disk.mode = MatrixMode(readonly, executable))
     /\ (changed' = "true" /\ changed # "true") => pc = "written"]_vars

C5_Witness ==
  /\ pc = "done" /\ run = 1 /\ changed = "true" /\ readonly = "true"
  /\ disk.file /\ disk.data = content.v /\ disk.mode = MatrixMode(readonly, executable)

\* C6: a construction whose absolute path is that of a registered file throws,
\* naming that path relative to the root outdir, and registers nothing; the
\* registered files have pairwise distinct absolute paths, and none is
\* synthesized while files are constructed.
C6_UniquePaths ==
  /\ [](\A i, j \in 1..Len(files) :
          i # j => files[i].absolutePath # files[j].absolutePath)
  /\ [][/\ files' # files =>
             /\ Len(files') = Len(files) + 1
             /\ SubSeq(files', 1, Len(files)) = files
             /\ thrown' = NoError
        /\ (\A project \in Projects, filePath \in FilePaths :
              (\E i \in 1..Len(files) :
                  files[i].absolutePath = PathResolve(Outdir(project), filePath))
              => ~ENABLED FileBaseNew(project, filePath))
        /\ thrown' # NoError =>
             /\ files' = files
             /\ \E i \in 1..Len(files) :
                  thrown' = "there is already a file under "
                            \o PathString(PathRelative(RootOutdir, files[i].absolutePath))
        /\ pc' = "define" /\ changed' = "undefined" /\ disk' = disk]_vars

C6_Witness ==
  /\ Len(files) = 2
  /\ files[1].project = "root" /\ files[2].project = "sub"
  /\ thrown = "there is already a file under sub/f"

(***************************************************************************)
(* The synthesized object against the calls of the definition.             *)
(***************************************************************************)
IsOverrideCall(c) == c.call \in {"addOverride", "addDeletionOverride", "addToArray"}

Parts(c) == splitOnPeriods(c.path)

Related(p, q) == IsPrefix(p, q) \/ IsPrefix(q, p)

NoPatchCalls == \A i \in 1..Len(projenrc.calls) : projenrc.calls[i].call # "patch"

\* call i is the only override call at, above or beneath its path
AloneOnPath(i) ==
  \A j \in 1..Len(projenrc.calls) :
    (j # i /\ IsOverrideCall(projenrc.calls[j]))
      => ~Related(Parts(projenrc.calls[j]), Parts(projenrc.calls[i]))

RECURSIVE HasAt(_, _)
\* the key path exists in x
HasAt(x, path) ==
  IF path = <<>> THEN TRUE
  ELSE HasProp(x, Head(path)) /\ HasAt(GetProp(x, Head(path)), Tail(path))

RECURSIVE LeafPaths(_)
\* the key paths of x that end at a value other than a non-empty map
LeafPaths(x) ==
  IF x.t = "object" /\ Len(x.v) > 0
  THEN UNION { PrefixPaths(x.v[i].k, LeafPaths(x.v[i].v)) : i \in 1..Len(x.v) }
  ELSE {<<>>}

\* the resolved base object of the file, as its text denotes it
ResolvedBase == JSONroundtrip(Resolved(obj, omitEmpty = "true"))

\* a JsonFile has been synthesized in this run and produced a document
Synthesized == projenrc.kind = "json" /\ pc # "define" /\ sanitized # Undefined

\* C7: every path set by addOverride with a defined value holds that value in the
\* synthesized object, and every leaf of the resolved base that is not at, above
\* or beneath an overridden path keeps its base value.
C7_OverridePrecedence ==
  (Synthesized /\ NoPatchCalls) =>
    /\ \A i \in 1..Len(projenrc.calls) :
         (projenrc.calls[i].call = "addOverride" /\ AloneOnPath(i))
           => GetAt(sanitized, Parts(projenrc.calls[i]))
                = JSONroundtrip(projenrc.calls[i].value)
    /\ \A q \in LeafPaths(ResolvedBase) :
         (\A i \in 1..Len(projenrc.calls) :
            IsOverrideCall(projenrc.calls[i]) => ~Related(Parts(projenrc.calls[i]), q))
           => GetAt(sanitized, q) = GetAt(ResolvedBase, q)

\* the keys that the base or another addOverride gives the parent of path
SiblingKeys(i) ==
  LET parts  == Parts(projenrc.calls[i])
      parent == ParentPath(parts)
      inBase == IF HasAt(ResolvedBase, parent) /\ GetAt(ResolvedBase, parent).t = "object"
                THEN { e.k : e \in { GetAt(ResolvedBase, parent).v[n] :
                                       n \in 1..Len(GetAt(ResolvedBase, parent).v) } }
                ELSE {}
      inOverrides ==
        { Parts(projenrc.calls[j])[Len(parts)] :
            j \in { n \in 1..Len(projenrc.calls) :
                      /\ projenrc.calls[n].call = "addOverride"
                      /\ Len(Parts(projenrc.calls[n])) = Len(parts)
                      /\ ParentPath(Parts(projenrc.calls[n])) = parent } }
  IN  (inBase \cup inOverrides) \ {parts[Len(parts)]}

\* C8: after addDeletionOverride(path) the key at path is absent from the
\* synthesized object, and the sibling keys that the base or other overrides give
\* the same parent are present.
C8_DeletionOverride ==
  (Synthesized /\ NoPatchCalls) =>
    \A i \in 1..Len(projenrc.calls) :
      (/\ projenrc.calls[i].call = "addDeletionOverride"
       /\ \A j \in 1..Len(projenrc.calls) :
            (j # i /\ IsOverrideCall(projenrc.calls[j]))
              => ~IsPrefix(Parts(projenrc.calls[j]), Parts(projenrc.calls[i])))
        => /\ ~HasAt(sanitized, Parts(projenrc.calls[i]))
           /\ \A k \in SiblingKeys(i) :
                HasAt(sanitized, Append(ParentPath(Parts(projenrc.calls[i])), k))

\* C9: where the resolved base holds an array at a path and addToArray was called
\* for that path, with no other override there, the synthesized value at the path
\* is the base array followed by the appended values.
C9_AppendToArray ==
  (Synthesized /\ NoPatchCalls) =>
    \A i \in 1..Len(projenrc.calls) :
      (/\ projenrc.calls[i].call = "addToArray"
       /\ AloneOnPath(i)
       /\ HasAt(ResolvedBase, Parts(projenrc.calls[i]))
       /\ GetAt(ResolvedBase, Parts(projenrc.calls[i])).t = "array")
        => GetAt(sanitized, Parts(projenrc.calls[i]))
             = Arr(GetAt(ResolvedBase, Parts(projenrc.calls[i])).v
                     \o projenrc.calls[i].value.v)

RECURSIVE OverridesOf(_)
\* the override tree built by the override calls alone, in call order
OverridesOf(calls) ==
  IF calls = <<>> THEN EmptyObj
  ELSE LET c    == calls[Len(calls)]
           rest == OverridesOf(SubSeq(calls, 1, Len(calls) - 1))
       IN  CASE c.call = "addOverride" -> addOverride(rest, c.path, c.value)
             [] c.call = "addDeletionOverride" -> addDeletionOverride(rest, c.path)
             [] c.call = "addToArray" -> addToArray(rest, c.path, c.value.v)
             [] OTHER -> rest

\* the patch operations of the patch calls, in call order
PatchesOf(calls) ==
  LET ps == SelectSeq(calls, LAMBDA c : c.call = "patch")
  IN  [i \in 1..Len(ps) |-> ps[i].value]

\* all overrides merged first, then the patch operations in call order
OverridesThenPatches ==
  PatchLoop(Merged(obj, OverridesOf(projenrc.calls), omitEmpty = "true"),
            PatchesOf(projenrc.calls))

IsCall(c, name, path) == c.call = name /\ c.path = path

\* C10: the synthesized object is the one obtained by merging all overrides and
\* then applying the patch operations in the order of the patch() calls, however
\* the calls were interleaved; addOverride('a', 1) and a replace of /a by 2 give
\* a = 2 in either call order.
C10_PatchesAfterOverrides ==
  (projenrc.kind = "json" /\ pc # "define") =>
    /\ IF OverridesThenPatches.err # NoError
       THEN thrown = OverridesThenPatches.err /\ sanitized = Undefined
       ELSE /\ thrown \in {NoError, "EACCES", "ENOENT"}
            /\ sanitized = IF Falsy(OverridesThenPatches.doc) THEN Undefined
                           ELSE JSONroundtrip(OverridesThenPatches.doc)
    /\ (/\ sanitized # Undefined
        /\ Len(projenrc.calls) = 2
        /\ \E i, j \in 1..2 :
             /\ projenrc.calls[i] = [call |-> "addOverride", path |-> P_a, value |-> Num(1)]
             /\ projenrc.calls[j].call = "patch"
             /\ projenrc.calls[j].value = PatchOp("replace", <<"a">>, Num(2)))
         => GetAt(sanitized, <<"a">>) = Num(2)

C10_Witness ==
  /\ pc = "done" /\ run = 1 /\ Len(projenrc.calls) = 2
  /\ projenrc.calls[1].call = "patch"
  /\ projenrc.calls[1].value = PatchOp("replace", <<"a">>, Num(2))
  /\ projenrc.calls[2] = [call |-> "addOverride", path |-> P_a, value |-> Num(1)]
  /\ GetAt(sanitized, <<"a">>) = Num(2)

(***************************************************************************)
(* JSON patch: the test failure policy.                                    *)
(***************************************************************************)
PatchCallsOf(calls) == SelectSeq(calls, LAMBDA c : c.call = "patch")

\* the index of the queued operation at which the patch loop of synthesizeContent stops
FailedOperation(st, ops) ==
  CHOOSE k \in 1..Len(ops) :
    /\ PatchLoop(st, SubSeq(ops, 1, k)).err # NoError
    /\ \A j \in 1..(k - 1) : PatchLoop(st, SubSeq(ops, 1, j)).err = NoError

\* the JsonPatch whose operation failed when the file was synthesized
FailedPatch ==
  PatchCallsOf(projenrc.calls)
    [FailedOperation(Merged(obj, rawOverrides, omitEmpty = "true"), patchOperations)].from

\* C11: a failing test operation raises an error out of the patch application of
\* a file only if it was created with the throw policy; created with the default
\* (skip) or the log policy it raises none
C11_TestFailurePolicy ==
  [][(pc = "define" /\ pc' = "threw" /\ thrown' = "TEST_OPERATION_FAILED")
       => FailedPatch.failureBehavior = THROW]_vars

\* the operations given to JsonPatch.apply, as applyPatch received them
GivenOps == [i \in 1..Len(projenrc.ops) |-> toJson(projenrc.ops[i])]

\* what applyPatch does with the batch on the document the caller passed
BatchRun == applyPatch(projenrc.document, GivenOps, 1)

TestFailed == BatchRun.err = "TEST_OPERATION_FAILED"

\* the operations of the batch after the one that failed
Following == SubSeq(projenrc.ops, BatchRun.index + 1, Len(projenrc.ops))

\* the returned document is d with the following operations applied, where they apply
FollowingAppliedTo(d) ==
  \/ apply(d, Following).thrown # NoError
  \/ returned = apply(d, Following).returned

\* C12: after a test operation with the skip policy failed, the operations after
\* it in the batch are still applied: the document returned is the document
\* (as passed or as the operations before the test left it) with them applied
C12_SkipContinues ==
  (pc = "returned" /\ TestFailed
      /\ projenrc.ops[BatchRun.index].failureBehavior = SKIP_PATCH)
    => (FollowingAppliedTo(projenrc.document) \/ FollowingAppliedTo(BatchRun.doc))

\* C13: when a test operation of a batch given to JsonPatch.apply fails, the
\* document returned (skip, log) or left behind (throw) has none of the effects
\* of the operations before it: it is the document as it was before the call
C13_NoPartialBatch ==
  (pc \in {"returned", "threw"} /\ TestFailed)
    => /\ document = projenrc.document
       /\ pc = "returned" => returned = projenrc.document

\* JsonPatch.apply itself honours the policy of the failing test operation
ApplyHonoursPolicy ==
  (pc \in {"returned", "threw"} /\ TestFailed)
    => /\ pc = "threw" <=> projenrc.ops[BatchRun.index].failureBehavior = THROW
       /\ projenrc.ops[BatchRun.index].failureBehavior = LOG_ERROR
            => logged = <<[index |-> BatchRun.index - 1,
                           op |-> toJson(projenrc.ops[BatchRun.index])]>>
       /\ projenrc.ops[BatchRun.index].failureBehavior # LOG_ERROR => logged = <<>>

(***************************************************************************)
(* The Dependencies registry.                                              *)
(***************************************************************************)
\* C14: after any sequence of addDependency and removeDependency calls, those
\* that throw included, the registry holds at most one entry per (name, type)
C14_OnePerNameType ==
  \A i, j \in 1..Len(deps) :
    (deps[i].name = deps[j].name /\ deps[i].type = deps[j].type) => i = j

\* a second addDependency for the pair of the first one threw
C14_Witness ==
  /\ projenrc.kind = "deps" /\ ip = 3
  /\ projenrc.calls[1].call = "addDependency"
  /\ projenrc.calls[2].call = "addDependency"
  /\ projenrc.calls[1].type = projenrc.calls[2].type
  /\ parseDependency(projenrc.calls[1].spec).name
       = parseDependency(projenrc.calls[2].spec).name
  /\ thrown = "AlreadySpecifiedWithDifferentVersion"
  /\ Len(deps) = 1

\* the call of addDependency that is about to be made, and what it asks for
AddingDependency == projenrc.kind = "deps" /\ Defining /\ cur.call = "addDependency"

Asked == parseDependency(cur.spec)

\* the entries of the registry for the pair that is asked for
EntriesOfPair == { i \in 1..Len(deps) : deps[i].name = Asked.name /\ deps[i].type = cur.type }

\* the existing entry has a specified version and the spec carries another one
Conflicting(i) ==
  /\ deps[i].version # Undefined
  /\ Asked.version # Undefined
  /\ Asked.version # deps[i].version

\* C15: addDependency for a pair that has an entry fails exactly when the entry
\* has a specified version and the spec carries a different specified version;
\* a failing call leaves the registry unchanged, and an entry whose version was
\* unspecified takes the new version
C15_AddExisting ==
  [][(AddingDependency /\ ip' = ip + 1)
       => \A i \in EntriesOfPair :
            /\ (thrown' # NoError) <=> Conflicting(i)
            /\ (thrown' # NoError) => deps' = deps
            /\ deps[i].version = Undefined
                 => (thrown' = NoError /\ deps'[i].version = Asked.version)]_vars

\* the step is a call of addTask / removeTask on the registry
AddingTask == projenrc.kind = "tasks" /\ Defining /\ cur.call = "addTask"

RemovingTask == projenrc.kind = "tasks" /\ Defining /\ cur.call = "removeTask"

\* the registered tasks of a name
Registered(ts, name) == SelectSeq(ts, LAMBDA x : x.name = name)

\* the call before this one was removeTask of the same name and it returned
JustRemoved ==
  /\ ip > 1
  /\ projenrc.calls[ip - 1].call = "removeTask"
  /\ projenrc.calls[ip - 1].name = cur.name
  /\ thrown = NoError

\* C16: addTask(name) throws when a task of that name is registered and leaves
\* the registered task as it was; an addTask(name) that follows a removeTask(name)
\* that returned registers a task of that name and does not throw.
C16_TaskNamesUnique ==
  [][AddingTask =>
       /\ Registered(tasks, cur.name) # <<>> =>
            thrown' # NoError /\ tasks' = tasks
       /\ JustRemoved =>
            thrown' = NoError /\ Len(Registered(tasks', cur.name)) = 1]_vars

\* the registered tasks with a step that spawns the task of the call
Dependents == SelectSeq(tasks, LAMBDA x : Spawns(x, cur.name))

\* C17: removeTask(name) throws an error that lists exactly the registered tasks
\* with a step spawning name when there is one, and removes nothing; otherwise
\* it removes and returns the registered task of that name, or returns
\* undefined and removes nothing when no task of that name is registered.
C17_RemoveTask ==
  [][RemovingTask =>
       IF Dependents # <<>>
       THEN /\ thrown' = "Unable to remove task \"" \o cur.name
                         \o "\" because the following tasks depend on it: "
                         \o JoinNames(Dependents)
            /\ tasks' = tasks
       ELSE /\ thrown' = NoError
            /\ IF Registered(tasks, cur.name) # <<>>
               THEN /\ returned' = Registered(tasks, cur.name)[1]
                    /\ Registered(tasks', cur.name) = <<>>
                    /\ Len(tasks') = Len(tasks) - 1
               ELSE returned' = Undefined /\ tasks' = tasks]_vars

(***************************************************************************)
(* The phases of a synthesis.                                              *)
(***************************************************************************)
\* the step belongs to a synthesis pass: PRESYNTH begins with it or has begun
InSynthesis == pc \in {"presynth", "synth", "postsynth"} \/ (pc = "define" /\ pc' = "presynth")

\* C18: once the PRESYNTH phase has begun no step adds or changes an entry of
\* the files, the dependencies or the tasks of the project, and no step throws
\* an error.
C18_PhaseGating ==
  [][InSynthesis =>
       /\ files' = files
       /\ dependencies' = dependencies
       /\ deps' = deps
       /\ tasks' = tasks
       /\ thrown' = NoError]_vars

\* the positions of invoked at which a hook was called
HookCalls(hook) == {k \in 1..Len(invoked) : invoked[k].hook = hook}

\* every registered file was synthesized before position k
AllFilesSynthesizedBefore(k) ==
  \A i \in 1..Len(files) :
    \E j \in 1..(k - 1) : invoked[j] = Hook("synthesize", PathString(files[i].absolutePath))

\* post-synthesis is disabled for this pass
PostDisabled == projenrc.how = "synthSnapshot" \/ projenrc.env = "true"

\* C19: a postSynthesize hook is called at most once for each component and
\* after synthesize() of every file; when PROJEN_DISABLE_POST is set to true no
\* postSynthesize hook is called and a pass that ends has synthesized every file.
C19_PostSynthesize ==
  projenrc.kind = "project" =>
    /\ \A k \in HookCalls("postSynthesize") :
         /\ AllFilesSynthesizedBefore(k)
         /\ \A j \in HookCalls("postSynthesize") : invoked[j].of = invoked[k].of => j = k
    /\ PostDisabled =>
         /\ HookCalls("postSynthesize") = {}
         /\ pc \in {"done", "exit"} /\ thrown = NoError /\ invoked # <<>> =>
              AllFilesSynthesizedBefore(Len(invoked) + 1)

\* a pass over two files called the hooks of the files and of the project
C19_Witness ==
  /\ projenrc.kind = "project"
  /\ Len(files) >= 2
  /\ Cardinality(HookCalls("postSynthesize")) >= 3
  /\ pc = "exit"

(***************************************************************************)
(* JSON output and the key order of the base object.                       *)
(***************************************************************************)
\* C20: a run whose definition builds the base object with the same keys and
\* values in another insertion order synthesizes the bytes the run before it
\* wrote: no step changes the file's bytes and synthesize() ends with
\* changed = false.
C20_KeyOrder ==
  [][(run >= 2 /\ projenrc.kind = "json") =>
       /\ disk'.data = disk.data
       /\ (EndsSynthesis => changed' = "false")]_vars

(***************************************************************************)
(* decamelizeKeysRecursively: depth and shape.                             *)
(***************************************************************************)
\* the values an object or an array holds
Children(heap, x) ==
  IF Deref(heap, x).t = "array"
  THEN { Deref(heap, x).v[i] : i \in 1..Len(Deref(heap, x).v) }
  ELSE IF Deref(heap, x).t = "object"
  THEN { Deref(heap, x).v[i].v : i \in 1..Len(Deref(heap, x).v) }
  ELSE {}

RECURSIVE AtDepth(_, _)
\* the values reached from the input through a key/index path of length d
AtDepth(heap, d) ==
  IF d = 0 THEN {Ref(1)}
  ELSE UNION { Children(heap, x) : x \in AtDepth(heap, d - 1) }

RECURSIVE SameShape(_, _, _)
\* out has the shape of in, entry by entry, with each key decamelized
SameShape(heap, in, out) ==
  IF Deref(heap, in).t = "array"
  THEN /\ out.t = "array"
       /\ Len(out.v) = Len(Deref(heap, in).v)
       /\ \A i \in 1..Len(out.v) : SameShape(heap, Deref(heap, in).v[i], out.v[i])
  ELSE IF Deref(heap, in).t = "object"
  THEN /\ out.t = "object"
       /\ Len(out.v) = Len(Deref(heap, in).v)
       /\ \A i \in 1..Len(out.v) :
            /\ out.v[i].k = Decamelize(Deref(heap, in).v[i].k)
            /\ SameShape(heap, Deref(heap, in).v[i].v, out.v[i].v)
  ELSE out = in

\* the entries of es whose decamelized key is k
WithKey(es, k) == { i \in 1..Len(es) : Decamelize(es[i].k) = k }

Max(S) == CHOOSE i \in S : \A j \in S : j <= i

Min(S) == CHOOSE i \in S : \A j \in S : i <= j

RECURSIVE ShapeUpToKeys(_, _, _)
\* as SameShape, but entries whose keys decamelize to one key become one entry,
\* at the place of the first and with the value of the last
ShapeUpToKeys(heap, in, out) ==
  IF Deref(heap, in).t = "array"
  THEN /\ out.t = "array"
       /\ Len(out.v) = Len(Deref(heap, in).v)
       /\ \A i \in 1..Len(out.v) : ShapeUpToKeys(heap, Deref(heap, in).v[i], out.v[i])
  ELSE IF Deref(heap, in).t = "object"
  THEN /\ out.t = "object"
       /\ { out.v[p].k : p \in 1..Len(out.v) }
            = { Decamelize(Deref(heap, in).v[i].k) : i \in 1..Len(Deref(heap, in).v) }
       /\ \A p \in 1..Len(out.v) :
            /\ \A q \in 1..Len(out.v) : out.v[q].k = out.v[p].k => q = p
            /\ \A q \in 1..(p - 1) :
                 Min(WithKey(Deref(heap, in).v, out.v[q].k))
                   < Min(WithKey(Deref(heap, in).v, out.v[p].k))
            /\ ShapeUpToKeys(heap,
                 Deref(heap, in).v[Max(WithKey(Deref(heap, in).v, out.v[p].k))].v,
                 out.v[p].v)
  ELSE out = in

Decamelized == projenrc.kind = "decamelize" /\ pc # "define"

\* a value lies beyond maxDepth
BeyondMaxDepth == AtDepth(projenrc.heap, MaxDepthOf(projenrc.opt) + 1) # {}

\* C21 as stated: the call ends; it throws the depth error exactly when a value
\* is reached through a path longer than maxDepth, and otherwise returns a
\* structure of the same shape with the keys decamelized.
C21_SameShape ==
  Decamelized =>
    IF BeyondMaxDepth THEN thrown = TooDeep
    ELSE thrown = NoError /\ SameShape(projenrc.heap, Ref(1), returned)

\* C21, amended: the call ends; it throws the depth error exactly when a value
\* is reached through a path longer than maxDepth, and otherwise returns a
\* structure of the same shape with the keys decamelized, except that entries
\* of one object whose keys decamelize to the same key become one entry that
\* holds the value of the last of them.
C21_DepthBound ==
  Decamelized =>
    IF BeyondMaxDepth THEN thrown = TooDeep
    ELSE thrown = NoError /\ ShapeUpToKeys(projenrc.heap, Ref(1), returned)

\* an object that contains itself was given with the default maxDepth
C21_Witness ==
  /\ Decamelized
  /\ projenrc.opt = Undefined
  /\ Ref(1) \in Children(projenrc.heap, Ref(1))
  /\ thrown = TooDeep

(***************************************************************************)
(* deepMerge on the caller's objects.                                      *)
(***************************************************************************)
\* the caller's objects before the call
Before == projenrc.heap

MergeEnded == projenrc.kind = "merge" /\ pc \in {"returned", "threw"}

RECURSIVE ReachedWithin(_, _, _)
\* the values reached from the values S in at most n steps
ReachedWithin(heap, S, n) ==
  IF n = 0 THEN S
  ELSE ReachedWithin(heap, S \cup UNION { Children(heap, x) : x \in S }, n - 1)

\* x is an object or array that holds itself, directly or not
OnCycle(heap, x) ==
  x.t = "ref" /\ x \in ReachedWithin(heap, Children(heap, x), Cardinality(DOMAIN heap))

\* the object root contains a circular reference
Circular(heap, root) ==
  \E x \in ReachedWithin(heap, {Ref(root)}, Cardinality(DOMAIN heap)) : OnCycle(heap, x)

\* the rightmost object is a finite tree that does not hold the leftmost
Separate(heap) ==
  /\ ~Circular(heap, Rightmost)
  /\ Ref(Leftmost) \notin ReachedWithin(heap, {Ref(Rightmost)}, Cardinality(DOMAIN heap))

RECURSIVE Unfold(_, _, _)
\* the value x as a tree, references followed d times
Unfold(heap, x, d) ==
  IF x.t # "ref" \/ d = 0 THEN x
  ELSE [t |-> heap[x.id].t,
        v |-> IF heap[x.id].t = "array" THEN heap[x.id].v ELSE <<>>,
        p |-> [i \in 1..Len(Props(heap[x.id])) |->
                 Entry(Props(heap[x.id])[i].k,
                       Unfold(heap, Props(heap[x.id])[i].v, d - 1))]]

\* a scalar, null or an array
NonObject(heap, x) ==
  \/ x.t \in {"number", "string", "null"}
  \/ x.t = "ref" /\ heap[x.id].t = "array"

\* key holds a plain object in the rightmost object and a non-object in the leftmost
OverwritingAt(key) ==
  /\ isObjectAt(Before, GetProp(Before[Rightmost], key))
  /\ NonObject(Before, GetProp(Before[Leftmost], key))
  /\ Separate(Before)

\* C22: deepMerge overwrites non-objects.  When the source holds a plain object
\* at a key where the target holds a scalar, null or an array, the merge does
\* not throw and the target then holds at that key a plain object equal to the
\* source's; the previous value is lost.
C22_OverwritesNonObjects ==
  (MergeEnded /\ ~projenrc.destructive)
    => \A key \in {"a"} :
         OverwritingAt(key)
           => /\ thrown = NoError
              /\ isObjectAt(store, GetProp(store[Leftmost], key))
              /\ Unfold(store, GetProp(store[Leftmost], key), MaxStack)
                   = Unfold(store, GetProp(store[Rightmost], key), MaxStack)

\* the keys of the leftmost object that the rightmost does not have
KeptKeys == { k \in {"a", "b"} : HasProp(Before[Leftmost], k) /\ ~HasProp(Before[Rightmost], k) }

\* C23: deepMerge terminates when the leftmost or the rightmost object contains
\* a circular reference: the call ends without unbounded recursion, and the keys
\* of the target that the source does not have keep their values.
C23_TerminatesOnCircular ==
  (MergeEnded /\ (Circular(Before, Leftmost) \/ Circular(Before, Rightmost)))
    => /\ thrown # RangeError
       /\ \A k \in KeptKeys : GetProp(store[Leftmost], k) = GetProp(Before[Leftmost], k)

\* the source holds an undefined leaf at x or beneath it
UndefinedBeneath(heap, x) ==
  Undefined \in ReachedWithin(heap, {x}, Cardinality(DOMAIN heap))

\* the keys the merge has removed from the leftmost object
RemovedKeys == { k \in {"a", "b"} : HasProp(Before[Leftmost], k) /\ ~HasProp(store[Leftmost], k) }

\* C25: a destructive deepMerge removes a key from the target only if the source
\* holds an undefined leaf at or beneath that key; a key holding a map is not
\* pruned because the target's map was empty before the merge or because the
\* source's map is empty.
C25_DestructiveRemoval ==
  (MergeEnded /\ projenrc.destructive /\ thrown = NoError /\ Separate(Before))
    => \A k \in RemovedKeys :
         HasProp(Before[Rightmost], k) /\ UndefinedBeneath(Before, GetProp(Before[Rightmost], k))

(***************************************************************************)
(* addOverride: the key sequence of a path and the tree afterwards.        *)
(***************************************************************************)
RECURSIVE SegmentEnd(_, _)
\* the position of the first unescaped '.' of x at or after i, or Len(x) + 1
SegmentEnd(x, i) ==
  IF i > Len(x) THEN i
  ELSE IF x[i] = "\\" THEN SegmentEnd(x, i + 2)
  ELSE IF x[i] = "." THEN i
  ELSE SegmentEnd(x, i + 1)

RECURSIVE Unescaped(_, _, _)
\* the characters of x from i up to j, each escaped character taken literally
Unescaped(x, i, j) ==
  IF i >= j THEN ""
  ELSE IF x[i] = "\\" THEN x[i + 1] \o Unescaped(x, i + 2, j)
  ELSE x[i] \o Unescaped(x, i + 1, j)

RECURSIVE KeysFrom(_, _)
KeysFrom(x, i) ==
  <<Unescaped(x, i, SegmentEnd(x, i))>>
    \o (IF SegmentEnd(x, i) > Len(x) THEN <<>> ELSE KeysFrom(x, SegmentEnd(x, i) + 1))

\* the key sequence a path names: its segments between unescaped periods
KeysOf(path) == KeysFrom(path, 1)

Without(es, key) == SelectSeq(es, LAMBDA e : e.k # key)

MapOrEmpty(x) == IF x.t = "object" THEN x ELSE EmptyObj

RECURSIVE HoldsAlong(_, _, _, _)
\* new is the map old with value at the key sequence keys: every entry off the
\* sequence is as in old, every intermediate key holds a map (old's map if it
\* held one, a new one otherwise) and the last key holds value
HoldsAlong(old, new, keys, value) ==
  /\ new.t = "object"
  /\ Without(new.v, Head(keys)) = Without(old.v, Head(keys))
  /\ HasProp(new, Head(keys))
  /\ IF Len(keys) = 1 THEN GetProp(new, Head(keys)) = value
     ELSE HoldsAlong(MapOrEmpty(GetProp(old, Head(keys))), GetProp(new, Head(keys)),
                     Tail(keys), value)

AddingOverride == projenrc.kind = "json" /\ Defining /\ cur.call = "addOverride"

\* C24: addOverride(path, value) splits the path on unescaped periods (a
\* backslash escapes the next character); afterwards the override tree holds
\* value at exactly that key sequence, every intermediate key that was absent,
\* null, a scalar or an array holds a new map, and every entry outside the key
\* sequence is unchanged.
C24_AddOverride ==
  [][AddingOverride
       => HoldsAlong(rawOverrides, rawOverrides', KeysOf(cur.path), cur.value)]_vars

\* an override beneath an escaped key has replaced an array on its way
C24_Witness ==
  /\ projenrc.kind = "json" /\ Len(projenrc.calls) = 2 /\ ip = 3
  /\ projenrc.calls[1] = [call |-> "addOverride", path |-> P_a, value |-> Arr(<<Str("m")>>)]
  /\ projenrc.calls[2].call = "addOverride"
  /\ projenrc.calls[2].path = P_abc
  /\ GetProp(GetProp(GetProp(rawOverrides, "a"), "b"), "c") = Num(1)

(***************************************************************************)
(* ObjectFile.synthesizeContent: an undefined base, and what it leaves.    *)
(***************************************************************************)
\* synthesizeContent of the JsonFile has run on a base that resolves to undefined
SynthesizedUndefined ==
  /\ projenrc.kind = "json" /\ pc # "define"
  /\ Resolved(obj, omitEmpty = "true") = Undefined

\* C26: whenever resolving the base object yields undefined, synthesizeContent
\* returns undefined and raises no error, whatever overrides and patch
\* operations are queued on the file.
C26_UndefinedBase == SynthesizedUndefined => (thrown = NoError /\ content = Undefined)

\* synthesizeContent of the JsonFile is about to run
SynthesizingContent == projenrc.kind = "json" /\ pc = "define" /\ ip > Len(projenrc.calls)

\* what a call of synthesizeContent on the file returns, or the error it throws
ContentOf(ov, ops) ==
  [ret |-> synthesizeContent(obj, ov, ops, omitEmpty = "true", Newline(projenrc)).ret,
   err |-> synthesizeContent(obj, ov, ops, omitEmpty = "true", Newline(projenrc)).err]

\* C27: synthesizeContent leaves the override tree and the patch queue of the
\* file unchanged, so a second call with the same base object returns the same
\* string as the first.
C27_SynthesizeContentFrame ==
  [][SynthesizingContent
       => /\ rawOverrides' = rawOverrides
          /\ patchOperations' = patchOperations
          /\ ContentOf(rawOverrides', patchOperations')
               = ContentOf(rawOverrides, patchOperations)]_vars

(***************************************************************************)
(* addToArray: successive calls on one path.                               *)
(***************************************************************************)
\* the definition is two addToArray calls on the same path
TwoAppends ==
  /\ projenrc.kind = "json" /\ Len(projenrc.calls) = 2
  /\ \A i \in {1, 2} : projenrc.calls[i].call = "addToArray"
  /\ projenrc.calls[1].path = projenrc.calls[2].path

\* the values the override tree records as appended at x
Appended(x) ==
  IF x.t = "array" THEN x.v
  ELSE IF x.t = "object" /\ HasProp(x, "__$APPEND") THEN GetProp(x, "__$APPEND").v
  ELSE <<>>

\* the last n items of the array x, none if x is not an array
LastItems(x, n) ==
  IF x.t = "array" /\ Len(x.v) >= n THEN SubSeq(x.v, Len(x.v) - n + 1, Len(x.v)) ELSE <<>>

BothValues == projenrc.calls[1].value.v \o projenrc.calls[2].value.v

\* C28: successive addToArray calls on the same path accumulate: after
\* addToArray(p, v1) and addToArray(p, v2) the override tree records v1 and v2
\* for p in call order, and both are appended in the synthesized array.
C28_AddToArrayAccumulates ==
  TwoAppends =>
    /\ (pc = "define" /\ ip = 3)
         => Appended(GetAt(rawOverrides, KeysOf(projenrc.calls[1].path))) = BothValues
    /\ (pc # "define" /\ sanitized # Undefined)
         => LastItems(GetAt(sanitized, KeysOf(projenrc.calls[1].path)), 2) = BothValues

(***************************************************************************)
(* Synthesis of a project tree: the paths written.                         *)
(***************************************************************************)
TreeSynthesized == projenrc.kind = "tree" /\ pc = "done"

\* C29: no two files of a project tree write to the same filesystem path: the
\* path synthesize() reads and writes is the file's absolutePath, the one the
\* constructor checked for uniqueness, for relative and absolute file paths.
C29_DistinctWrittenPaths ==
  TreeSynthesized =>
    /\ \A i, j \in DOMAIN returned : i # j => returned[i] # returned[j]
    /\ \A i \in DOMAIN returned : returned[i] = files[i].absolutePath

(***************************************************************************)
(* The mode of a file synthesized repeatedly while its readonly and        *)
(* executable properties are assigned.                                     *)
(***************************************************************************)
\* a step with which a call of synthesize() returns
SynthesizeReturns == projenrc.kind = "file" /\ pc # "done" /\ pc' = "done"

\* C30 as stated: after any sequence of successful synthesize() calls between
\* which readonly and executable may be assigned, whenever changed is true or
\* false the mode of the file on disk is the permission-matrix mode of the
\* file's current readonly and executable.
C30_ModeFollowsProperties ==
  [][(SynthesizeReturns /\ changed' \in {"true", "false"} /\ disk'.file)
       => disk'.mode = MatrixMode(readonly', executable')]_vars

\* C30, amended: a call that went through writeFile returns with changed = true
\* and the file in the permission-matrix mode of the readonly and executable the
\* file has at that call; a call that found the content unchanged, or skipped
\* the file, returns with the file's mode as it was.
C30_ModeWhenWritten ==
  [][SynthesizeReturns
       => IF pc = "written"
          THEN /\ changed' = "true"
               /\ disk'.file /\ disk'.mode = MatrixMode(readonly', executable')
          ELSE /\ disk' = disk
               /\ changed' \in {"false", changed}]_vars

\* a property was assigned after construction and a later call wrote the file in
\* the mode of the new values
C30_Witness ==
  /\ projenrc.kind = "file" /\ pc = "done" /\ changed = "true"
  /\ readonly # Nullish(projenrc.readonly, "true")
  /\ disk.file /\ disk.mode = MatrixMode(readonly, executable)

=============================================================================
